---- MODULE Spec2Model ----
(***************************************************************************)
(* ink: record -> sort -> execute pipeline.                                *)
(*                                                                         *)
(*   Recorder (recording.cpp)  appends compact draw ops to ops_.           *)
(*   SortKey  (draw_pass.hpp)  packs clip id, type, colour and sequence    *)
(*                             into one 64-bit key.                        *)
(*   DrawPass::create          walks the ops, keys them and sorts.         *)
(*   Device / Surface          begin_frame, end_frame, flush.              *)
(*                                                                         *)
(* Two specifications share the variables:                                 *)
(*   PassSpec  a bare Recorder filled by a client, then finish() and       *)
(*             DrawPass::create (the harness of tests/test_draw_pass.cpp). *)
(*   Spec      a Surface: Device calls, beginFrame, endFrame, flush.       *)
(***************************************************************************)
EXTENDS Integers, Sequences, FiniteSets, TLC

(***************************************************************************)
(* Bounds of the model.                                                    *)
(***************************************************************************)
\* Ops recorded one call at a time into one Recorder (after an optional run).
MaxOps == 3
\* Recorder calls made on one Surface over its life (Spec).
MaxCalls == 2
\* beginFrame / endFrame / flush calls counted on one Surface (Spec).
MaxFrameCalls == 2

(***************************************************************************)
(* DrawOp::Type, by its u8 value.                                          *)
(***************************************************************************)
FillRect == 0
StrokeRect == 1
Line == 2
Polyline == 3
Text == 4
DrawImage == 5
SetClip == 6
ClearClip == 7

\* Number of values of the u16 clipId parameter of SortKey::make.
U16Mod == 65536
\* Number of values of a u8 (the type cast and the seq parameter of SortKey::make).
U8Mod == 256

(***************************************************************************)
(* Color and Rect (types.hpp).  A default-constructed Color is opaque      *)
(* black; that is the colour of every op whose recorder method sets none   *)
(* (CompactDrawOp op{}).                                                   *)
(***************************************************************************)
DefaultColor == [r |-> 0, g |-> 0, b |-> 0, a |-> 255]
Red == [r |-> 255, g |-> 0, b |-> 0, a |-> 255]
Blue == [r |-> 0, g |-> 0, b |-> 255, a |-> 255]
Colors == {Red, Blue}

DefaultRect == [x |-> 0, y |-> 0, w |-> 0, h |-> 0]
Rects == {[x |-> 0, y |-> 0, w |-> 4, h |-> 4]}

Max(a, b) == IF a >= b THEN a ELSE b
Min(a, b) == IF a <= b THEN a ELSE b

\* std::unique_ptr<Recording> holding nothing.
Null == [null |-> TRUE]

\* Point (types.hpp) and the arguments the sort does not look at.
Origin == [x |-> 0, y |-> 0]
Corner == [x |-> 2, y |-> 2]
HairWidth == 1

\* A shared_ptr<Image> holding nothing, a Surface without a Pixmap, a Canvas
\* State as constructed, and no call made yet.
NullImage == [addr |-> 0, format |-> "none"]
NoPixmap == [addr |-> 0, format |-> "none"]
DefaultState == [hasClip |-> FALSE, clip |-> DefaultRect]
NoCall == [method |-> "none"]

VARIABLES
    ops_,            \* Recorder::ops_ : [run, runOp, ops], see OpList
    nextId,          \* serial number the next recorded op gets (identity of an op)
    recording_,      \* Device::recording_ : Null or a sealed op list
    passOf,          \* the Recording handed to the last DrawPass::create, or Null
    sortedIndices_,  \* DrawPass::sortedIndices_ of that pass (index runs, in order)
    hasBackend,      \* Surface::backend_ != nullptr
    beginCalls,      \* Backend::beginFrame calls received
    endCalls,        \* Backend::endFrame calls received
    executed,        \* ids of the ops the backend executed, in execution order
    executeCalls,    \* Backend::execute calls received
    discarded,       \* ids of the ops a beginFrame threw away unexecuted
    last,            \* the Surface operation that ran last
    call,            \* the Recorder / Arena call made last, with its arguments
    stack_,          \* Canvas::stack_ : saved State frames, innermost last
    current_,        \* Canvas::current_ : [hasClip, clip]
    heap,            \* pixel buffers by address: [w, h, px], px row-major
    pixmap_,         \* Surface::pixmap_ : NoPixmap or [addr, format]
    hasClip_,        \* CpuBackend::hasClip_
    clipRect_,       \* CpuBackend::clipRect_
    glyphCache_,     \* CpuBackend::glyphCache_ != nullptr
    snapshots,       \* Images returned by makeSnapshot, with their pixels then
    trace,           \* the backend state the last execute started from
    gNextImageId,    \* image.cpp : std::atomic<u64> gNextImageId
    created,         \* the Images constructed so far, in order of construction
    gpuContext_,     \* GLBackend::gpuContext_ : Null or [valid, cpuImageCache_]
    impl_,           \* GLBackend::impl_ : Null or [width, height, colorVerts, texVerts]
    gl               \* the GL context: scissor state, texture names, draw calls

canvasVars == <<stack_, current_>>
glVars == <<gNextImageId, created, gpuContext_, impl_, gl>>
rasterVars == <<heap, pixmap_, hasClip_, clipRect_, glyphCache_, snapshots, trace,
                glVars>>

vars == <<ops_, nextId, recording_, passOf, sortedIndices_, hasBackend,
          beginCalls, endCalls, executed, executeCalls, discarded, last,
          call, canvasVars, rasterVars>>

(***************************************************************************)
(* CompactDrawOp: type, colour, width and the 16-byte union `data`, kept   *)
(* as its four 32-bit words (fill.rect, stroke.rect and clip.rect are      *)
(* x, y, w, h; line is p1.x, p1.y, p2.x, p2.y; polyline is offset, count;  *)
(* text is pos.x, pos.y, offset, len; image is x, y, imageIndex).          *)
(* `CompactDrawOp op{}` zeroes everything but the colour, which is the     *)
(* default opaque black.  id is the op's identity (which call recorded     *)
(* it); it is not part of the struct.                                      *)
(***************************************************************************)
MkOp(type, color, width, data, id) ==
    [type |-> type, color |-> color, width |-> width, data |-> data, id |-> id]

ZeroData == <<0, 0, 0, 0>>
RectData(r) == <<r.x, r.y, r.w, r.h>>
DataRect(d) == [x |-> d[1], y |-> d[2], w |-> d[3], h |-> d[4]]

(***************************************************************************)
(* An op list is `run` copies of `runOp` (recorded by a client loop that   *)
(* calls one recorder method `run` times with the same arguments) followed *)
(* by the ops of `ops`.  Op indices are 0-based as in the code: the run    *)
(* holds indices 0..run-1 and ops[k] has index run+k-1.  The k-th op of a  *)
(* run of drawImage calls carries imageIndex k.  The record also holds the *)
(* Recorder's two other members: arena (DrawOpArena::data_, a byte vector) *)
(* and images (images_).                                                   *)
(***************************************************************************)
NoOp == MkOp(FillRect, DefaultColor, 0, ZeroData, 0)
EmptyOps == [run |-> 0, runOp |-> NoOp, ops |-> <<>>, arena |-> <<>>, images |-> <<>>]

OpCount(R) == R.run + Len(R.ops)
OpAt(R, i) ==
    IF i >= R.run THEN R.ops[i - R.run + 1]
    ELSE IF R.runOp.type = DrawImage THEN [R.runOp EXCEPT !.data[3] = i]
    ELSE R.runOp
IsEmpty(R) == OpCount(R) = 0

IsClipChange(op) == op.type \in {SetClip, ClearClip}

(***************************************************************************)
(* SortKey::make.  The u64 key is kept as its bit-fields, most significant *)
(* first: <<clipId[63:48], type[47:40], r, g, b, a [39:8], seq[7:0]>>.     *)
(* The fields do not overlap, so comparing two u64 keys is comparing the   *)
(* field tuples lexicographically.  clipId is a u16 parameter and seq a    *)
(* u8 parameter: whatever the caller counts is reduced modulo 2^16, 2^8.   *)
(* The definitions before SortKeyMake are faulty variants of it: an index  *)
(* that is not stored, and fields packed in another order or left out.     *)
(***************************************************************************)
SortKeyMakeDropsIndex(clipId, type, c, seq, idx) ==
    [key |-> <<clipId % U16Mod, type % U8Mod, c.r, c.g, c.b, c.a, seq % U8Mod>>,
     opIndex |-> 0]

SortKeyMakeTypeFirst(clipId, type, c, seq, idx) ==
    [key |-> <<type % U8Mod, clipId % U16Mod, c.r, c.g, c.b, c.a, seq % U8Mod>>,
     opIndex |-> idx]

SortKeyMakeSeqBeforeColor(clipId, type, c, seq, idx) ==
    [key |-> <<clipId % U16Mod, type % U8Mod, seq % U8Mod, c.r, c.g, c.b, c.a>>,
     opIndex |-> idx]

SortKeyMakeNoSeq(clipId, type, c, seq, idx) ==
    [key |-> <<clipId % U16Mod, type % U8Mod, c.r, c.g, c.b, c.a, 0>>,
     opIndex |-> idx]

SortKeyMakeSeqDescending(clipId, type, c, seq, idx) ==
    [key |-> <<clipId % U16Mod, type % U8Mod, c.r, c.g, c.b, c.a,
               (U8Mod - 1) - (seq % U8Mod)>>,
     opIndex |-> idx]

SortKeyMakeColorBeforeType(clipId, type, c, seq, idx) ==
    [key |-> <<clipId % U16Mod, c.r, c.g, c.b, c.a, type % U8Mod, seq % U8Mod>>,
     opIndex |-> idx]

SortKeyMake(clipId, type, c, seq, idx) ==
    [key |-> <<clipId % U16Mod, type % U8Mod, c.r, c.g, c.b, c.a, seq % U8Mod>>,
     opIndex |-> idx]

RECURSIVE LexLess(_, _)
LexLess(a, b) ==
    IF a = <<>> \/ b = <<>> THEN FALSE
    ELSE IF Head(a) # Head(b) THEN Head(a) < Head(b)
    ELSE LexLess(Tail(a), Tail(b))

\* SortKey::operator< : key < o.key
SortKeyLess(a, b) == LexLess(a.key, b.key)

(***************************************************************************)
(* DrawPass::create.  The walk: every op is keyed with the current clip    *)
(* group id and the current sequence number; a SetClip or ClearClip is     *)
(* keyed first and then opens the next group (the id is incremented after  *)
(* the op, the sequence restarts).  The counters are kept unbounded here;  *)
(* SortKey::make truncates them.                                           *)
(***************************************************************************)
RECURSIVE Walk(_, _, _, _)
Walk(ops, clipId, seq, idx) ==
    IF ops = <<>> THEN <<>>
    ELSE LET op == Head(ops)
         IN  <<SortKeyMake(clipId, op.type, op.color, seq, idx)>> \o
             (IF IsClipChange(op)
                THEN Walk(Tail(ops), clipId + 1, 0, idx + 1)
                ELSE Walk(Tail(ops), clipId, seq + 1, idx + 1))

\* The key the walk gives the k-th op of the run (0 <= k < R.run).
RunKey(R, k) ==
    IF IsClipChange(R.runOp)
      THEN SortKeyMake(k, R.runOp.type, R.runOp.color, 0, k)
      ELSE SortKeyMake(0, R.runOp.type, R.runOp.color, k, k)

\* The keys the walk gives the ops that follow the run.
TailKeys(R) ==
    IF IsClipChange(R.runOp)
      THEN Walk(R.ops, R.run, 0, R.run)
      ELSE Walk(R.ops, 0, R.run, R.run)

(***************************************************************************)
(* std::sort(keys) with SortKey::operator<.  The order of equal keys is    *)
(* not specified, so the result is any arrangement in which no key is      *)
(* followed by a smaller one.  SortedOrders enumerates these arrangements  *)
(* of the keys in S (indices into keys), smallest first.                   *)
(***************************************************************************)
RECURSIVE SortedOrders(_, _)
SortedOrders(keys, S) ==
    IF S = {} THEN {<<>>}
    ELSE UNION { { <<keys[m]>> \o rest : rest \in SortedOrders(keys, S \ {m}) } :
                 m \in { x \in S : \A y \in S : ~SortKeyLess(keys[y], keys[x]) } }

\* How many run ops may stand before key K in a sorted arrangement: c such that
\* no run op before c is greater than K and no run op from c on is smaller.
\* The run's keys ascend and differ in one field only (the clip id of a run of
\* clip changes, the sequence number of a run of draws), so the boundary lies
\* at an end of the run or where a field of K is met.
InsertionPoints(R, K) ==
    { c \in (({0, R.run} \cup {K.key[f] : f \in DOMAIN K.key}
                         \cup {K.key[f] + 1 : f \in DOMAIN K.key})
             \cap (0..R.run)) :
        /\ (c = 0 \/ ~SortKeyLess(K, RunKey(R, c - 1)))
        /\ (c = R.run \/ ~SortKeyLess(RunKey(R, c), K)) }

\* The run ops a..b-1 as one entry of sortedIndices_ (ascending indices lo..hi).
RunSeg(R, a, b) ==
    IF a >= b THEN <<>>
    ELSE <<[lo |-> RunKey(R, a).opIndex, hi |-> RunKey(R, b - 1).opIndex]>>

\* The sorted arrangements of the whole key vector: the sorted keys t of the
\* explicit ops, with the run ops from `from` on merged in.
RECURSIVE Merges(_, _, _)
Merges(R, t, from) ==
    IF t = <<>> THEN {RunSeg(R, from, R.run)}
    ELSE UNION { { RunSeg(R, from, c)
                     \o <<[lo |-> Head(t).opIndex, hi |-> Head(t).opIndex]>>
                     \o rest : rest \in Merges(R, Tail(t), c) } :
                 c \in { c \in InsertionPoints(R, Head(t)) : c >= from } }

\* The set of sortedIndices_ vectors DrawPass::create can return for R.
DrawPassCreate(R) ==
    LET keys == TailKeys(R)
    IN  UNION { Merges(R, t, 0) : t \in SortedOrders(keys, DOMAIN keys) }

(***************************************************************************)
(* DrawOpArena (recording.cpp): data_ is a byte vector.  An f32 is four    *)
(* bytes and a Point eight (x then y); the model keeps coordinates in      *)
(* 0..65535 and lays them out low byte first.  A string is its characters  *)
(* as bytes 1..255.                                                        *)
(***************************************************************************)
SizeofF32 == 4
SizeofPoint == 8

F32Bytes(v) == <<v % U8Mod, (v \div U8Mod) % U8Mod, 0, 0>>
BytesF32(b) == b[1] + U8Mod * b[2]
PointBytes(p) == F32Bytes(p.x) \o F32Bytes(p.y)

RECURSIVE PointsBytes(_)
PointsBytes(pts) ==
    IF pts = <<>> THEN <<>> ELSE PointBytes(Head(pts)) \o PointsBytes(Tail(pts))

\* memcpy(data_.data() + offset, src, Len(src))
Memcpy(data, offset, src) ==
    [k \in DOMAIN data |->
        IF offset < k /\ k <= offset + Len(src) THEN src[k - offset] ELSE data[k]]

\* DrawOpArena::allocate : offset = data_.size(); data_.resize(size + bytes)
\* (resize value-initialises the new bytes).
ArenaAllocate(data, bytes) ==
    [offset |-> Len(data), data |-> data \o [k \in 1..bytes |-> 0]]

\* DrawOpArena::storeString, in a variant that reuses the arena from offset 0.
ArenaStoreStringAtStart(data, str) ==
    LET a == ArenaAllocate(data, Len(str) + 1)
    IN  [offset |-> 0,
         data |-> [Memcpy(a.data, 0, str) EXCEPT ![Len(str) + 1] = 0]]

\* DrawOpArena::storeString : allocate(size + 1); memcpy; data_[offset + size] = 0
ArenaStoreString(data, str) ==
    LET a == ArenaAllocate(data, Len(str) + 1)
    IN  [offset |-> a.offset,
         data |-> [Memcpy(a.data, a.offset, str) EXCEPT ![a.offset + Len(str) + 1] = 0]]

\* DrawOpArena::storePoints : allocate(count * sizeof(Point)); memcpy
ArenaStorePoints(data, pts, count) ==
    LET a == ArenaAllocate(data, count * SizeofPoint)
    IN  [offset |-> a.offset,
         data |-> Memcpy(a.data, a.offset, PointsBytes(SubSeq(pts, 1, count)))]

\* What a reader finds at an offset: getString(offset) read up to and
\* including the terminator of a string of len characters, and the count
\* Points at getPoints(offset).
ArenaBytes(data, offset, n) == [k \in 1..n |-> data[offset + k]]
ArenaGetString(data, offset, len) == ArenaBytes(data, offset, len + 1)
ArenaGetPoints(data, offset, count) ==
    [k \in 1..count |->
        [x |-> BytesF32(ArenaBytes(data, offset + (k - 1) * SizeofPoint, SizeofF32)),
         y |-> BytesF32(ArenaBytes(data, offset + (k - 1) * SizeofPoint + SizeofF32,
                                   SizeofF32))]]

(***************************************************************************)
(* Recorder (recording.cpp).  Every method builds one CompactDrawOp op{}   *)
(* and push_backs it; methods that take no colour leave the default one.   *)
(* The definitions before a method are faulty variants of it.              *)
(***************************************************************************)
RecorderPush(type, color, width, data) ==
    /\ ops_' = [ops_ EXCEPT !.ops = Append(@, MkOp(type, color, width, data, nextId))]
    /\ nextId' = nextId + 1

RecorderFillRectDropped(r, c) == UNCHANGED <<ops_, nextId>>

RecorderFillRect(r, c) == RecorderPush(FillRect, c, 0, RectData(r))

RecorderStrokeRect(r, c, width) == RecorderPush(StrokeRect, c, width, RectData(r))

RecorderDrawLineSwapsEnds(p1, p2, c, width) ==
    RecorderPush(Line, c, width, <<p2.x, p2.y, p1.x, p1.y>>)

RecorderDrawLine(p1, p2, c, width) ==
    RecorderPush(Line, c, width, <<p1.x, p1.y, p2.x, p2.y>>)

RecorderDrawPolyline(pts, count, c, width) ==
    LET st == ArenaStorePoints(ops_.arena, pts, count)
    IN  /\ ops_' = [ops_ EXCEPT
                      !.arena = st.data,
                      !.ops = Append(@, MkOp(Polyline, c, width,
                                             <<st.offset, count, 0, 0>>, nextId))]
        /\ nextId' = nextId + 1

RecorderDrawText(p, text, c) ==
    LET st == ArenaStoreString(ops_.arena, text)
    IN  /\ ops_' = [ops_ EXCEPT
                      !.arena = st.data,
                      !.ops = Append(@, MkOp(Text, c, 0,
                                             <<p.x, p.y, st.offset, Len(text)>>, nextId))]
        /\ nextId' = nextId + 1

RecorderDrawImage(image, x, y) ==
    /\ ops_' = [ops_ EXCEPT
                  !.images = Append(@, image),
                  !.ops = Append(@, MkOp(DrawImage, DefaultColor, 0,
                                         <<x, y, Len(ops_.images), 0>>, nextId))]
    /\ nextId' = nextId + 1

RecorderSetClipDropsRect(r) == RecorderPush(SetClip, DefaultColor, 0, ZeroData)

RecorderSetClipDropped(r) == UNCHANGED <<ops_, nextId>>

RecorderSetClip(r) == RecorderPush(SetClip, DefaultColor, 0, RectData(r))

RecorderClearClipAsSetClip == RecorderPush(SetClip, DefaultColor, 0, ZeroData)

RecorderClearClip == RecorderPush(ClearClip, DefaultColor, 0, ZeroData)

\* Recording::getImage : nullptr when the index is out of range.
GetImage(R, index) == IF index < Len(R.images) THEN R.images[index + 1] ELSE NullImage

\* Recorder::reset : ops_.clear(); arena_.reset(); images_.clear()
RecorderReset == ops_' = EmptyOps

\* A client loop calling one recorder method n times with the same arguments on
\* an empty Recorder; runOp.id is the id of the first op of the run.
RecorderLoop(type, color, data, n) ==
    /\ ops_' = [EmptyOps EXCEPT !.run = n, !.runOp = MkOp(type, color, 0, data, nextId)]
    /\ nextId' = nextId + n

\* The same for n calls of drawImage(image, x, y).
RecorderDrawImageLoop(image, x, y, n) ==
    /\ ops_' = [EmptyOps EXCEPT
                  !.run = n,
                  !.runOp = MkOp(DrawImage, DefaultColor, 0, <<x, y, 0, 0>>, nextId),
                  !.images = [k \in 1..n |-> image]]
    /\ nextId' = nextId + n

\* Calls made by the loops: enough to bring the u16 clip id, and the u8
\* sequence number, to the edge of their range.
ClipLoopCalls == U16Mod - 2
FillLoopCalls == U8Mod - 1

(***************************************************************************)
(* PassSpec: record(fn) of tests/test_draw_pass.cpp, then DrawPass::create.*)
(***************************************************************************)
surfaceVars == <<recording_, hasBackend, beginCalls, endCalls, executed,
                 executeCalls, discarded, last, call, canvasVars, rasterVars>>

\* A Canvas as constructed, and a process that owns no pixel buffer.
CanvasInit ==
    /\ stack_ = <<>>
    /\ current_ = DefaultState

\* The GL context before anything was done in it: scissor test off with the
\* initial box, no texture named, nothing drawn.  hasGL is the build's INK_HAS_GL.
NoGlState ==
    [hasGL |-> FALSE, scissor |-> [enabled |-> FALSE, box |-> <<0, 0, 0, 0>>],
     textures |-> {}, deleted |-> {}, drawn |-> <<>>, lookups |-> <<>>,
     uploads |-> <<>>]

\* No GL backend and no Image yet.
NoGl ==
    /\ gNextImageId = 1
    /\ created = <<>>
    /\ gpuContext_ = Null
    /\ impl_ = Null
    /\ gl = NoGlState

NoRasterInit ==
    /\ heap = <<>>
    /\ pixmap_ = NoPixmap
    /\ hasClip_ = FALSE
    /\ clipRect_ = DefaultRect
    /\ glyphCache_ = FALSE
    /\ snapshots = <<>>
    /\ trace = Null
    /\ NoGl

PassInit ==
    /\ ops_ = EmptyOps
    /\ nextId = 1
    /\ recording_ = Null
    /\ passOf = Null
    /\ sortedIndices_ = <<>>
    /\ hasBackend = FALSE
    /\ beginCalls = 0
    /\ endCalls = 0
    /\ executed = <<>>
    /\ executeCalls = 0
    /\ discarded = {}
    /\ last = "init"
    /\ call = NoCall
    /\ CanvasInit
    /\ NoRasterInit

Recording == passOf = Null /\ Len(ops_.ops) < MaxOps

RecFillRect ==
    /\ Recording
    /\ \E r \in Rects, c \in Colors : RecorderFillRect(r, c)
    /\ UNCHANGED <<passOf, sortedIndices_, surfaceVars>>

RecStrokeRect ==
    /\ Recording
    /\ \E r \in Rects, c \in Colors : RecorderStrokeRect(r, c, HairWidth)
    /\ UNCHANGED <<passOf, sortedIndices_, surfaceVars>>

RecDrawLine ==
    /\ Recording
    /\ \E c \in Colors : RecorderDrawLine(Origin, Corner, c, HairWidth)
    /\ UNCHANGED <<passOf, sortedIndices_, surfaceVars>>

RecDrawImage ==
    /\ Recording
    /\ RecorderDrawImage(NullImage, 0, 0)
    /\ UNCHANGED <<passOf, sortedIndices_, surfaceVars>>

RecSetClip ==
    /\ Recording
    /\ \E r \in Rects : RecorderSetClip(r)
    /\ UNCHANGED <<passOf, sortedIndices_, surfaceVars>>

RecClearClip ==
    /\ Recording
    /\ RecorderClearClip
    /\ UNCHANGED <<passOf, sortedIndices_, surfaceVars>>

RecSetClipLoop ==
    /\ passOf = Null
    /\ IsEmpty(ops_)
    /\ \E r \in Rects : RecorderLoop(SetClip, DefaultColor, RectData(r), ClipLoopCalls)
    /\ UNCHANGED <<passOf, sortedIndices_, surfaceVars>>

RecFillRectLoop ==
    /\ passOf = Null
    /\ IsEmpty(ops_)
    /\ \E r \in Rects, c \in Colors : RecorderLoop(FillRect, c, RectData(r), FillLoopCalls)
    /\ UNCHANGED <<passOf, sortedIndices_, surfaceVars>>

\* recording = rec.finish(); pass = DrawPass::create(*recording)
FinishAndCreate ==
    /\ passOf = Null
    /\ \E s \in DrawPassCreate(ops_) :
         /\ passOf' = ops_
         /\ sortedIndices_' = s
    /\ ops_' = EmptyOps
    /\ UNCHANGED <<nextId, surfaceVars>>

\* The next test: a fresh Recorder.
NewRecorder ==
    /\ passOf # Null
    /\ passOf' = Null
    /\ sortedIndices_' = <<>>
    /\ ops_' = EmptyOps
    /\ nextId' = 1
    /\ UNCHANGED surfaceVars

PassNext ==
    \/ RecFillRect
    \/ RecStrokeRect
    \/ RecDrawLine
    \/ RecDrawImage
    \/ RecSetClip
    \/ RecClearClip
    \/ RecSetClipLoop
    \/ RecFillRectLoop
    \/ FinishAndCreate
    \/ NewRecorder

PassSpec == PassInit /\ [][PassNext]_vars

(***************************************************************************)
(* Pixels.  A pixel is the u32 of the buffer as its four bytes, most       *)
(* significant first: <<bits 31:24, 23:16, 15:8, 7:0>>.  In BGRA8888 that  *)
(* is a, r, g, b; in RGBA8888 a, b, g, r.  A buffer is [w, h, px] with px  *)
(* row-major; the pixel (x, y) is px[y * w + x + 1].                       *)
(***************************************************************************)
Formats == {"BGRA8888", "RGBA8888"}

\* A buffer of w * h pixels all holding `pixel`.
ImageBuffer(w, h, pixel) == [w |-> w, h |-> h, px |-> [k \in 1..(w * h) |-> pixel]]

\* Images the client made (2x2, RGBA): an opaque red one, an opaque blue one
\* and a fully transparent one (makeRawImage(W, H, 0x00000000)), and the heap
\* that holds their buffers.
ClientHeap ==
    <<ImageBuffer(2, 2, <<255, 0, 0, 255>>), ImageBuffer(2, 2, <<255, 255, 0, 0>>),
      ImageBuffer(2, 2, <<0, 0, 0, 0>>)>>
ClientImages == {[addr |-> 1, format |-> "RGBA8888"], [addr |-> 2, format |-> "RGBA8888"]}
TransparentImage == [addr |-> 3, format |-> "RGBA8888"]

\* 0xFF000000 | r, g, b in the order of the format.
PackOpaque(format, r, g, b) ==
    IF format = "BGRA8888" THEN <<255, r, g, b>> ELSE <<255, b, g, r>>

\* (a << 24) | r, g, b in the order of the format.
PackColor(format, c) ==
    IF format = "BGRA8888" THEN <<c.a, c.r, c.g, c.b>> ELSE <<c.a, c.b, c.g, c.r>>

\* The r, g, b of a pixel word of the format.
PixelR(format, p) == IF format = "BGRA8888" THEN p[2] ELSE p[4]
PixelG(format, p) == p[3]
PixelB(format, p) == IF format = "BGRA8888" THEN p[4] ELSE p[2]

(***************************************************************************)
(* CpuBackend (cpu_backend.cpp).  B is the backend with its target:        *)
(* [w, h, format, px, hasClip, clipRect, stray].  Coordinates are whole    *)
(* numbers, so the i32(...) casts are the identity.  px is the target's    *)
(* memory, row after row; stray records that a store (row[x] = ...,        *)
(* dstLine[col] = ...) went to an x outside its row or a row outside the   *)
(* target.                                                                 *)
(***************************************************************************)
PixelIndex(B, x, y) == y * B.w + x + 1
InTarget(B, x, y) == x >= 0 /\ x < B.w /\ y >= 0 /\ y < B.h

EffectiveClip(B) ==
    IF B.hasClip THEN B.clipRect ELSE [x |-> 0, y |-> 0, w |-> B.w, h |-> B.h]

IsClipped(B, x, y) ==
    LET clip == EffectiveClip(B)
    IN  x < clip.x \/ x >= clip.x + clip.w \/ y < clip.y \/ y >= clip.y + clip.h

\* blendPixel with the division replaced by a shift (>> 8) and no fast paths.
BlendPixelShift(B, x, y, c) ==
    IF ~InTarget(B, x, y) \/ IsClipped(B, x, y) THEN B
    ELSE LET dst == B.px[PixelIndex(B, x, y)]
             a == c.a
         IN  [B EXCEPT !.px[PixelIndex(B, x, y)] =
                PackOpaque(B.format,
                   ((c.r * a + PixelR(B.format, dst) * (255 - a)) \div 256) % U8Mod,
                   ((c.g * a + PixelG(B.format, dst) * (255 - a)) \div 256) % U8Mod,
                   ((c.b * a + PixelB(B.format, dst) * (255 - a)) \div 256) % U8Mod)]

\* blendPixel without the clip test.
BlendPixelUnclipped(B, x, y, c) ==
    IF ~InTarget(B, x, y) THEN B
    ELSE LET dst == B.px[PixelIndex(B, x, y)]
             a == c.a
         IN  IF a = 255
               THEN [B EXCEPT !.px[PixelIndex(B, x, y)] = PackOpaque(B.format, c.r, c.g, c.b)]
             ELSE IF a = 0 THEN B
             ELSE [B EXCEPT !.px[PixelIndex(B, x, y)] =
                PackOpaque(B.format,
                   ((c.r * a + PixelR(B.format, dst) * (255 - a)) \div 255) % U8Mod,
                   ((c.g * a + PixelG(B.format, dst) * (255 - a)) \div 255) % U8Mod,
                   ((c.b * a + PixelB(B.format, dst) * (255 - a)) \div 255) % U8Mod)]

BlendPixel(B, x, y, c) ==
    IF ~InTarget(B, x, y) THEN B
    ELSE IF IsClipped(B, x, y) THEN B
    ELSE LET dst == B.px[PixelIndex(B, x, y)]
             a == c.a
         IN  IF a = 255
               THEN [B EXCEPT !.px[PixelIndex(B, x, y)] = PackOpaque(B.format, c.r, c.g, c.b)]
             ELSE IF a = 0 THEN B
             ELSE [B EXCEPT !.px[PixelIndex(B, x, y)] =
                PackOpaque(B.format,
                   ((c.r * a + PixelR(B.format, dst) * (255 - a)) \div 255) % U8Mod,
                   ((c.g * a + PixelG(B.format, dst) * (255 - a)) \div 255) % U8Mod,
                   ((c.b * a + PixelB(B.format, dst) * (255 - a)) \div 255) % U8Mod)]

\* for (x = x1; x <= x2; ++x) blendPixel(x, y, c)
RECURSIVE BlendSpan(_, _, _, _, _)
BlendSpan(B, x1, x2, y, c) ==
    IF x1 > x2 THEN B ELSE BlendSpan(BlendPixel(B, x1, y, c), x1 + 1, x2, y, c)

\* drawHLine without the clamp of x1, x2 to the target's columns.
DrawHLineNoTargetClamp(B, x1, x2, y, c) ==
    IF y < 0 \/ y >= B.h THEN B
    ELSE LET clip == EffectiveClip(B)
             a1 == Max(x1, clip.x)
             a2 == Min(x2, clip.x + clip.w - 1)
         IN  IF y < clip.y \/ y >= clip.y + clip.h THEN B
             ELSE IF a1 > a2 THEN B
             ELSE IF c.a = 255
                    THEN [B EXCEPT !.px =
                            [k \in DOMAIN B.px |->
                               IF /\ k >= PixelIndex(B, a1, y)
                                  /\ k <= PixelIndex(B, a2, y)
                                 THEN PackColor(B.format, c)
                                 ELSE B.px[k]],
                            !.stray = @ \/ (a1 < 0 \/ a2 >= B.w)]
                    ELSE BlendSpan(B, a1, a2, y, c)

DrawHLine(B, x1, x2, y, c) ==
    IF y < 0 \/ y >= B.h THEN B
    ELSE LET clip == EffectiveClip(B)
             a1 == Max(x1, clip.x)
             a2 == Min(x2, clip.x + clip.w - 1)
         IN  IF y < clip.y \/ y >= clip.y + clip.h THEN B
             ELSE IF a1 > a2 THEN B
             ELSE LET b1 == Max(a1, 0)
                      b2 == Min(a2, B.w - 1)
                  IN  IF c.a = 255
                        THEN [B EXCEPT !.px =
                                [k \in DOMAIN B.px |->
                                   IF /\ k >= PixelIndex(B, b1, y)
                                      /\ k <= PixelIndex(B, b2, y)
                                     THEN PackColor(B.format, c)
                                     ELSE B.px[k]],
                                !.stray = @ \/ (b1 <= b2 /\ (b1 < 0 \/ b2 >= B.w))]
                        ELSE BlendSpan(B, b1, b2, y, c)

Abs(n) == IF n < 0 THEN 0 - n ELSE n

\* The loop of drawLineImpl (Bresenham) from (x1, y1) with error term err;
\* d holds dx, dy, sx, sy, computed once before the loop.
RECURSIVE LineLoop(_, _, _, _, _, _, _, _)
LineLoop(B, x1, y1, x2, y2, d, err, c) ==
    LET painted == BlendPixel(B, x1, y1, c)
    IN  IF x1 = x2 /\ y1 = y2 THEN painted
        ELSE LET e2 == 2 * err
                 stepX == e2 > 0 - d.dy
                 stepY == e2 < d.dx
             IN  LineLoop(painted,
                          IF stepX THEN x1 + d.sx ELSE x1,
                          IF stepY THEN y1 + d.sy ELSE y1,
                          x2, y2, d,
                          err - (IF stepX THEN d.dy ELSE 0) + (IF stepY THEN d.dx ELSE 0),
                          c)

DrawLineImpl(B, x1, y1, x2, y2, c) ==
    LET d == [dx |-> Abs(x2 - x1), dy |-> Abs(y2 - y1),
              sx |-> IF x1 < x2 THEN 1 ELSE 0 - 1,
              sy |-> IF y1 < y2 THEN 1 ELSE 0 - 1]
    IN  LineLoop(B, x1, y1, x2, y2, d, d.dx - d.dy, c)

\* Image accessors: the buffer an Image points to; valid() is pixels != null.
ImageValid(H, image) == image.addr # 0

\* One destination pixel of drawImageImpl: source pixel sp of the image's
\* format onto (col, row).
DrawImagePixel(B, imageFormat, sp, col, row) ==
    LET sa == sp[1]
        sr == PixelR(imageFormat, sp)
        sg == PixelG(imageFormat, sp)
        sb == PixelB(imageFormat, sp)
    IN  IF sa = 0 THEN B
        ELSE IF sa = 255
          THEN [B EXCEPT !.px[PixelIndex(B, col, row)] = PackOpaque(B.format, sr, sg, sb),
                         !.stray = @ \/ ~InTarget(B, col, row)]
        ELSE BlendPixel(B, col, row, [r |-> sr, g |-> sg, b |-> sb, a |-> sa])

\* The two nested loops of drawImageImpl, from (col, row).
RECURSIVE ImageLoop(_, _, _, _, _, _)
ImageLoop(B, src, image, g, col, row) ==
    IF row >= g.endY THEN B
    ELSE IF col >= g.endX THEN ImageLoop(B, src, image, g, g.startX, row + 1)
    ELSE ImageLoop(DrawImagePixel(B, image.format,
                                  src.px[(row - g.dstY) * src.w + (col - g.dstX) + 1],
                                  col, row),
                   src, image, g, col + 1, row)

DrawImageImpl(B, H, image, x, y) ==
    IF ~ImageValid(H, image) THEN B
    ELSE LET src == H[image.addr]
             clip == EffectiveClip(B)
             clipX1 == Max(clip.x, 0)
             clipY1 == Max(clip.y, 0)
             clipX2 == Min(clip.x + clip.w, B.w)
             clipY2 == Min(clip.y + clip.h, B.h)
             g == [dstX |-> x, dstY |-> y,
                   startX |-> Max(x, clipX1), startY |-> Max(y, clipY1),
                   endX |-> Min(x + src.w, clipX2), endY |-> Min(y + src.h, clipY2)]
         IN  IF g.startX >= g.endX \/ g.startY >= g.endY THEN B
             ELSE ImageLoop(B, src, image, g, g.startX, g.startY)

\* for (y = y1; y < y2; ++y) drawHLine(x1, x2 - 1, y, c)
RECURSIVE FillRows(_, _, _, _, _, _)
FillRows(B, x1, x2, y, y2, c) ==
    IF y >= y2 THEN B ELSE FillRows(DrawHLine(B, x1, x2 - 1, y, c), x1, x2, y + 1, y2, c)

ExecFillRect(B, r, c) ==
    LET clip == EffectiveClip(B)
        x1 == Max(Max(r.x, clip.x), 0)
        y1 == Max(Max(r.y, clip.y), 0)
        x2 == Min(Min(r.x + r.w, clip.x + clip.w), B.w)
        y2 == Min(Min(r.y + r.h, clip.y + clip.h), B.h)
    IN  IF x1 >= x2 \/ y1 >= y2 THEN B ELSE FillRows(B, x1, x2, y1, y2, c)

\* for (y = y1; y <= y2; ++y) { blendPixel(x1, y, c); blendPixel(x2, y, c); }
RECURSIVE StrokeSides(_, _, _, _, _, _)
StrokeSides(B, x1, x2, y, y2, c) ==
    IF y > y2 THEN B
    ELSE StrokeSides(BlendPixel(BlendPixel(B, x1, y, c), x2, y, c), x1, x2, y + 1, y2, c)

ExecStrokeRect(B, r, c, width) ==
    LET x1 == r.x
        y1 == r.y
        x2 == r.x + r.w
        y2 == r.y + r.h
    IN  StrokeSides(DrawHLine(DrawHLine(B, x1, x2, y1, c), x1, x2, y2, c),
                    x1, x2, y1, y2, c)

ExecLine(B, p1, p2, c, width) == DrawLineImpl(B, p1.x, p1.y, p2.x, p2.y, c)

\* for (i = 0; i + 1 < count; ++i) drawLineImpl(pts[i], pts[i + 1], c)
RECURSIVE PolylineLoop(_, _, _, _, _)
PolylineLoop(B, pts, i, count, c) ==
    IF i + 1 >= count THEN B
    ELSE PolylineLoop(DrawLineImpl(B, pts[i + 1].x, pts[i + 1].y,
                                   pts[i + 2].x, pts[i + 2].y, c),
                      pts, i + 1, count, c)

ExecPolyline(B, pts, count, c, width) == PolylineLoop(B, pts, 0, count, c)

(***************************************************************************)
(* GlyphCache::drawText(pixels, stride, bufH, x, y, text, c).  The header  *)
(* (glyph_cache.hpp) gives the signature: the buffer, its stride and       *)
(* height, no clip.  The body follows the specification ("directly         *)
(* composites each glyph into a 32-bit pixel buffer using the glyph's      *)
(* coverage as alpha"): here every character is a glyph one pixel wide     *)
(* and one high with full coverage, advance 1, composited on row y.        *)
(***************************************************************************)
RECURSIVE GlyphCacheDrawText(_, _, _, _, _)
GlyphCacheDrawText(B, x, y, text, c) ==
    IF text = <<>> THEN B
    ELSE GlyphCacheDrawText(BlendPixelUnclipped(B, x, y, c), x + 1, y, Tail(text), c)

\* execText: nothing without a glyph cache; else delegate, passing the buffer
\* and its size only.
ExecText(B, glyph, p, text, c) ==
    IF ~glyph THEN B ELSE GlyphCacheDrawText(B, p.x, p.y, text, c)

ExecDrawImage(B, H, image, x, y) == DrawImageImpl(B, H, image, x, y)

ExecSetClip(B, r) == [B EXCEPT !.clipRect = r, !.hasClip = TRUE]

ExecClearClip(B) == [B EXCEPT !.hasClip = FALSE, !.clipRect = DefaultRect]

\* One iteration of the loop of CpuBackend::execute: the switch on op.type.
ExecOp(B, H, glyph, R, op) ==
    CASE op.type = FillRect -> ExecFillRect(B, DataRect(op.data), op.color)
      [] op.type = StrokeRect -> ExecStrokeRect(B, DataRect(op.data), op.color, op.width)
      [] op.type = Line ->
           ExecLine(B, [x |-> op.data[1], y |-> op.data[2]],
                    [x |-> op.data[3], y |-> op.data[4]], op.color, op.width)
      [] op.type = Polyline ->
           ExecPolyline(B, ArenaGetPoints(R.arena, op.data[1], op.data[2]),
                        op.data[2], op.color, op.width)
      [] op.type = Text ->
           ExecText(B, glyph, [x |-> op.data[1], y |-> op.data[2]],
                    SubSeq(ArenaGetString(R.arena, op.data[3], op.data[4]),
                           1, op.data[4]),
                    op.color)
      [] op.type = DrawImage ->
           ExecDrawImage(B, H, GetImage(R, op.data[3]), op.data[1], op.data[2])
      [] op.type = SetClip -> ExecSetClip(B, DataRect(op.data))
      [] op.type = ClearClip -> ExecClearClip(B)

\* The op indices of a pass in order (for (u32 idx : pass.sortedIndices())).
RECURSIVE IndexOrder(_)
IndexOrder(s) ==
    IF s = <<>> THEN <<>>
    ELSE [k \in 1..(Head(s).hi - Head(s).lo + 1) |-> Head(s).lo + k - 1]
           \o IndexOrder(Tail(s))

\* CpuBackend::execute over order[lo..hi], from backend state B: the loop
\*   for (i32 idx : pass.sortedIndices()) { switch (op.type) ... }
\* split in halves, the first half finished (its target has a size) before the
\* second starts, so that a long op list is walked without deep nesting.
RECURSIVE ExecuteRange(_, _, _, _, _, _, _)
ExecuteRange(B, H, glyph, R, order, lo, hi) ==
    IF lo > hi THEN B
    ELSE IF lo = hi THEN ExecOp(B, H, glyph, R, OpAt(R, order[lo]))
    ELSE LET mid == (lo + hi) \div 2
             half == ExecuteRange(B, H, glyph, R, order, lo, mid)
         IN  IF half.w >= 0
               THEN ExecuteRange(half, H, glyph, R, order, mid + 1, hi)
               ELSE half

(***************************************************************************)
(* Pixmap (pixmap.hpp; the bodies follow the specification's "Pixmap"      *)
(* section) and Image::MakeFromPixmap (image.cpp).  H is the heap.         *)
(***************************************************************************)
\* What freshly allocated pixel memory may hold.
AllocFills == {<<0, 0, 0, 0>>, <<1, 2, 3, 4>>}

\* Pixmap::Alloc : a new buffer of w * h pixels holding `fill`.
PixmapAlloc(H, w, h, fill) == Append(H, ImageBuffer(w, h, fill))

\* Pixmap::clear : one packed word to every pixel, in the pixmap's format.
PixmapClear(H, pm, c) ==
    [H EXCEPT ![pm.addr].px = [k \in DOMAIN @ |-> PackColor(pm.format, c)]]

\* Pixmap::reallocate : drops the old memory and allocates fresh.
PixmapReallocate(H, pm, w, h, fill) ==
    [H EXCEPT ![pm.addr] = ImageBuffer(w, h, fill)]

\* Image::MakeFromPixmapNoCopy : the Image points at the pixmap's own memory.
ImageMakeFromPixmapNoCopy(H, pm) ==
    [heap |-> H, image |-> [addr |-> pm.addr, format |-> pm.format]]

\* Image::MakeFromPixmap : Pixmap::Alloc(src.info()), memcpy, Image on the copy.
ImageMakeFromPixmap(H, pm) ==
    [heap |-> Append(H, H[pm.addr]),
     image |-> [addr |-> Len(H) + 1, format |-> pm.format]]

\* The CpuBackend with its target_ (the Surface's Pixmap) as one record.
Backend ==
    [w |-> heap[pixmap_.addr].w, h |-> heap[pixmap_.addr].h,
     format |-> pixmap_.format, px |-> heap[pixmap_.addr].px,
     hasClip |-> hasClip_, clipRect |-> clipRect_, stray |-> FALSE]

\* CpuBackend::beginFrame : target_->clear({0, 0, 0, 255}); clip dropped.
CpuBackendBeginFrame ==
    /\ heap' = PixmapClear(heap, pixmap_, DefaultColor)
    /\ hasClip_' = FALSE
    /\ clipRect_' = DefaultRect

\* CpuBackend::execute(recording, pass) with pass.sortedIndices() = s.  The
\* backend state the walk started from is kept in `trace`.
CpuBackendExecute(R, s) ==
    LET order == IndexOrder(s)
        final == ExecuteRange(Backend, heap, glyphCache_, R, order, 1, Len(order))
    IN  /\ heap' = [heap EXCEPT ![pixmap_.addr].px = final.px]
        /\ hasClip_' = final.hasClip
        /\ clipRect_' = final.clipRect
        /\ trace' = Backend

(***************************************************************************)
(* Image identity (image.cpp) and the images a GL client draws.  An Image  *)
(* here is [w, h, addr, format, id, storage, texture]: valid() is a size   *)
(* above zero and pixels != nullptr for a CpuPixmap image, texture != 0    *)
(* for a GpuTexture image.                                                 *)
(***************************************************************************)
\* Image::nextImageId without the increment.
ImageNextImageIdStuck(counter) == [id |-> counter, counter |-> counter]

\* Image::nextImageId : gNextImageId.fetch_add(1), one atomic step; it
\* returns the value before the addition.
ImageNextImageId(counter) == [id |-> counter, counter |-> counter + 1]

\* Image::Image(info, pixels, owned) and Image::Image(info, handle, token):
\* id_(nextImageId()) and the members; the Image is noted in `created`.
ImageImage(info, storage, addr, texture) ==
    LET n == ImageNextImageId(gNextImageId)
        image == [w |-> info.w, h |-> info.h, addr |-> addr, format |-> info.format,
                  id |-> n.id, storage |-> storage, texture |-> texture]
    IN  /\ gNextImageId' = n.counter
        /\ created' = Append(created, image)

IsCpuBacked(image) == image.storage = "CpuPixmap"
IsGpuBacked(image) == image.storage = "GpuTexture"
GlImageValid(image) ==
    /\ image # NullImage
    /\ image.w > 0 /\ image.h > 0
    /\ IF IsCpuBacked(image) THEN image.addr # 0 ELSE image.texture # 0

(***************************************************************************)
(* GLBackend (gl_backend.cpp) and GLGpuImpl (gl_gpu_impl.cpp).  X is the   *)
(* GL side as one record: [impl, gl, cache] = GLBackend::impl_, the GL     *)
(* context and GLGpuImpl::cpuImageCache_ (a function from image ids to     *)
(* texture names).  A vertex carries the index of the op that pushed it.   *)
(* gl.drawn lists the glDrawArrays calls with the scissor state they were  *)
(* issued under; gl.lookups and gl.uploads list the resolveImageTexture    *)
(* results and the glTexImage2D uploads of the image cache.                *)
(***************************************************************************)
ColorVertex(x, y, c, idx) == [x |-> x, y |-> y, c |-> c, op |-> idx]
TexVertex(x, y, u, v, idx) == [x |-> x, y |-> y, u |-> u, v |-> v, op |-> idx]

\* pushQuad : two triangles.
PushQuad(X, x0, y0, x1, y1, c, idx) ==
    [X EXCEPT !.impl.colorVerts = @ \o
        <<ColorVertex(x0, y0, c, idx), ColorVertex(x1, y0, c, idx),
          ColorVertex(x0, y1, c, idx), ColorVertex(x1, y0, c, idx),
          ColorVertex(x1, y1, c, idx), ColorVertex(x0, y1, c, idx)>>]

Sign(n) == IF n > 0 THEN 1 ELSE IF n < 0 THEN 0 - 1 ELSE 0

\* pushLine for the lines drawn here, which run along an axis and have an
\* even width: len is |dx| + |dy| and the normal (-dy, dx) / len * hw is
\* whole.  A line of no length pushes nothing.
PushLine(X, x0, y0, x1, y1, c, width, idx) ==
    LET dx == x1 - x0
        dy == y1 - y0
        len == Abs(dx) + Abs(dy)
        hw == width \div 2
        nx == (0 - Sign(dy)) * hw
        ny == Sign(dx) * hw
        v0 == ColorVertex(x0 + nx, y0 + ny, c, idx)
        v1 == ColorVertex(x0 - nx, y0 - ny, c, idx)
        v2 == ColorVertex(x1 + nx, y1 + ny, c, idx)
        v3 == ColorVertex(x1 - nx, y1 - ny, c, idx)
    IN  IF len = 0 THEN X
        ELSE [X EXCEPT !.impl.colorVerts = @ \o <<v0, v1, v2, v1, v3, v2>>]

PushTexQuad(X, x0, y0, x1, y1, idx) ==
    [X EXCEPT !.impl.texVerts = @ \o
        <<TexVertex(x0, y0, 0, 0, idx), TexVertex(x1, y0, 1, 0, idx),
          TexVertex(x0, y1, 0, 1, idx), TexVertex(x1, y0, 1, 0, idx),
          TexVertex(x1, y1, 1, 1, idx), TexVertex(x0, y1, 0, 1, idx)>>]

\* flushColorBatch : nothing if empty; else glDrawArrays over colorVerts,
\* then colorVerts.clear().
FlushColorBatch(X) ==
    IF X.impl.colorVerts = <<>> THEN X
    ELSE [X EXCEPT !.gl.drawn = Append(@, [verts |-> X.impl.colorVerts, texture |-> 0,
                                           scissor |-> X.gl.scissor]),
                   !.impl.colorVerts = <<>>]

\* flushTexBatch(texId)
FlushTexBatch(X, texId) ==
    IF X.impl.texVerts = <<>> THEN X
    ELSE [X EXCEPT !.gl.drawn = Append(@, [verts |-> X.impl.texVerts, texture |-> texId,
                                           scissor |-> X.gl.scissor]),
                   !.impl.texVerts = <<>>]

\* glGenTextures(1, &name) : a name not in use, or, when it fails (ok is
\* FALSE), the name is left 0.
GlGenTexture(G, ok) ==
    IF ok THEN CHOOSE n \in 1..(Cardinality(G.textures) + 1) : n \notin G.textures
    ELSE 0

\* cacheCpuImageTexture that enters the texture name in the cache also when
\* glGenTextures failed.
CacheCpuImageTextureAlways(X, image, ok) ==
    LET texture == GlGenTexture(X.gl, ok)
    IN  [X |-> [X EXCEPT !.cache = (image.id :> texture) @@ @], texture |-> texture]

\* cacheCpuImageTexture(image) : [X, texture], texture 0 on failure.
CacheCpuImageTexture(X, image, ok) ==
    IF ~GlImageValid(image) \/ ~IsCpuBacked(image) THEN [X |-> X, texture |-> 0]
    ELSE LET texture == GlGenTexture(X.gl, ok)
         IN  IF texture = 0 THEN [X |-> X, texture |-> 0]
             ELSE [X |-> [X EXCEPT
                            !.gl.textures = @ \cup {texture},
                            !.gl.uploads = Append(@, [id |-> image.id,
                                                      texture |-> texture,
                                                      format |-> image.format]),
                            !.cache = (image.id :> texture) @@ @],
                   texture |-> texture]

\* resolveImageTexture that looks nothing up and always makes a texture.
ResolveImageTextureNoLookup(X, image, ok) ==
    LET made == CacheCpuImageTexture(X, image, ok)
    IN  [X |-> [made.X EXCEPT !.gl.lookups =
                   Append(@, [id |-> image.id, texture |-> made.texture])],
         texture |-> made.texture]

\* GLGpuImpl::resolveImageTexture(image) : [X, texture].  The lookups of
\* CPU-backed images are noted in gl.lookups.
ResolveImageTexture(X, image, ok) ==
    IF ~GlImageValid(image) THEN [X |-> X, texture |-> 0]
    ELSE IF IsGpuBacked(image) THEN [X |-> X, texture |-> image.texture]
    ELSE LET made == IF image.id \in DOMAIN X.cache
                       THEN [X |-> X, texture |-> X.cache[image.id]]
                       ELSE CacheCpuImageTexture(X, image, ok)
         IN  [X |-> [made.X EXCEPT !.gl.lookups =
                        Append(@, [id |-> image.id, texture |-> made.texture])],
              texture |-> made.texture]

\* The scissor state after glEnable(GL_SCISSOR_TEST); glScissor(x, sy, w, h)
\* for the clip rect r on a target `height` high (GL's origin is bottom-left).
ScissorOf(r, height) ==
    [enabled |-> TRUE, box |-> <<r.x, height - (r.y + r.h), r.w, r.h>>]

\* The DrawImage case of the switch.
GlExecDrawImage(X, R, op, idx, hasContext, ok) ==
    LET flushed == FlushColorBatch(X)
        image == GetImage(R, op.data[3])
    IN  IF ~GlImageValid(image) THEN flushed
        ELSE LET found == IF IsGpuBacked(image)
                            THEN [X |-> flushed, texture |-> image.texture]
                          ELSE IF hasContext
                            THEN ResolveImageTexture(flushed, image, ok)
                          ELSE [X |-> flushed, texture |-> 0]
             IN  IF found.texture = 0 THEN found.X
                 ELSE FlushTexBatch(
                        PushTexQuad(found.X, op.data[1], op.data[2],
                                    op.data[1] + image.w, op.data[2] + image.h, idx),
                        found.texture)

\* The switch of GLBackend::execute for the op at index idx.
GlExecSwitch(X, R, op, idx, hasContext, ok) ==
    CASE op.type = FillRect ->
           LET r == DataRect(op.data)
           IN  PushQuad(X, r.x, r.y, r.x + r.w, r.y + r.h, op.color, idx)
      [] op.type = StrokeRect ->
           LET r == DataRect(op.data)
               w == IF op.width > 0 THEN op.width ELSE 1
               top == PushQuad(X, r.x, r.y, r.x + r.w, r.y + w, op.color, idx)
               bottom == PushQuad(top, r.x, r.y + r.h - w, r.x + r.w, r.y + r.h,
                                  op.color, idx)
               left == PushQuad(bottom, r.x, r.y + w, r.x + w, r.y + r.h - w,
                                op.color, idx)
           IN  PushQuad(left, r.x + r.w - w, r.y + w, r.x + r.w, r.y + r.h - w,
                        op.color, idx)
      [] op.type = Line ->
           PushLine(X, op.data[1], op.data[2], op.data[3], op.data[4], op.color,
                    IF op.width > 0 THEN op.width ELSE 1, idx)
      [] op.type = DrawImage -> GlExecDrawImage(X, R, op, idx, hasContext, ok)
      [] op.type = SetClip ->
           [FlushColorBatch(X) EXCEPT
              !.gl.scissor = ScissorOf(DataRect(op.data), X.impl.height)]
      [] op.type = ClearClip ->
           [FlushColorBatch(X) EXCEPT !.gl.scissor.enabled = FALSE]
      [] OTHER -> X    \* Polyline and Text: not recorded by the client of GpuSpec

\* One iteration of the loop with every flush of the colour batch left to
\* the end of the pass.
GlExecOpFlushesLate(X, R, op, idx, lastType, hasContext, ok) ==
    CASE op.type = SetClip ->
           [X EXCEPT !.gl.scissor = ScissorOf(DataRect(op.data), X.impl.height)]
      [] op.type = ClearClip -> [X EXCEPT !.gl.scissor.enabled = FALSE]
      [] OTHER -> GlExecSwitch(X, R, op, idx, hasContext, ok)

\* One iteration of the loop of GLBackend::execute: the flush on a change of
\* type (lastType is -1 before the first op), then the switch.
GlExecOp(X, R, op, idx, lastType, hasContext, ok) ==
    GlExecSwitch(IF op.type # lastType /\ lastType # 0 - 1 THEN FlushColorBatch(X) ELSE X,
                 R, op, idx, hasContext, ok)

\* The loop of GLBackend::execute over order[k..]; glGenTextures fails at
\* the positions in `fails`.
RECURSIVE GlExecuteFrom(_, _, _, _, _, _, _)
GlExecuteFrom(X, R, order, k, lastType, hasContext, fails) ==
    IF k > Len(order) THEN X
    ELSE LET op == OpAt(R, order[k])
         IN  GlExecuteFrom(GlExecOp(X, R, op, order[k], lastType, hasContext,
                                    k \notin fails),
                           R, order, k + 1, op.type, hasContext, fails)

\* The GL side as one record, and the cache of the context (none without one).
GlSide ==
    [impl |-> impl_, gl |-> gl,
     cache |-> IF gpuContext_ = Null THEN <<>> ELSE gpuContext_.cpuImageCache_]

\* GLBackend::execute(recording, pass) with pass.sortedIndices() = s: the
\* loop, then the flush of what is left.  The GL side the walk started from
\* is kept in `trace`, with the positions at which glGenTextures failed.
GLBackendExecute(R, s) ==
    \E fails \in SUBSET (1..Len(IndexOrder(s))) :
      LET final == FlushColorBatch(
                     GlExecuteFrom(GlSide, R, IndexOrder(s), 1, 0 - 1,
                                   gpuContext_ # Null, fails))
      IN  /\ impl_' = final.impl
          /\ gl' = final.gl
          /\ gpuContext_' = IF gpuContext_ = Null THEN Null
                            ELSE [gpuContext_ EXCEPT !.cpuImageCache_ = final.cache]
          /\ trace' = [side |-> GlSide, fails |-> fails]

\* GLBackend::beginFrame : clear; glDisable(GL_SCISSOR_TEST).
GLBackendBeginFrame ==
    gl' = [gl EXCEPT !.scissor.enabled = FALSE]

\* ~GLGpuImpl, run when the last owner lets the GpuContext go: every cached
\* texture is deleted and the cache cleared.
GLGpuImplDestroy ==
    /\ gl' = [gl EXCEPT !.deleted = @ \cup
                 {gpuContext_.cpuImageCache_[i] : i \in DOMAIN gpuContext_.cpuImageCache_}]
    /\ gpuContext_' = Null

(***************************************************************************)
(* Device (device.cpp) and Surface (surface.cpp).                          *)
(***************************************************************************)
\* The id of the op at index i, and the ids of all ops of an op list.
OpId(R, i) == IF i < R.run THEN R.runOp.id + i ELSE R.ops[i - R.run + 1].id
Ids(R) ==
    IF R = Null THEN {}
    ELSE {R.ops[k].id : k \in DOMAIN R.ops}
           \cup (IF R.run > 0 THEN R.runOp.id .. (R.runOp.id + R.run - 1) ELSE {})

\* The ids of the ops of R in the order of the pass s (Backend::execute walks
\* pass.sortedIndices() and runs ops[idx] for each).
RECURSIVE ExecutionOrder(_, _)
ExecutionOrder(R, s) ==
    IF s = <<>> THEN <<>>
    ELSE [k \in 1..(Head(s).hi - Head(s).lo + 1) |-> OpId(R, Head(s).lo + k - 1)]
           \o ExecutionOrder(R, Tail(s))

\* Device::beginFrame : recorder_.reset(); recording_.reset();
DeviceBeginFrameKeepsRecording ==
    /\ RecorderReset
    /\ recording_' = recording_

DeviceBeginFrame ==
    /\ RecorderReset
    /\ recording_' = Null

\* Device::endFrame : recording_ = recorder_.finish();  finish() moves ops_ out
\* of the Recorder, which is left empty; a Recording sealed earlier and never
\* taken is destroyed by the assignment.
DeviceEndFrame ==
    /\ recording_' = ops_
    /\ ops_' = EmptyOps

\* Device::finishRecording : return std::move(recording_);  (the caller reads
\* the unprimed recording_)
DeviceFinishRecordingKeeps == recording_' = recording_

DeviceFinishRecording == recording_' = Null

Init ==
    /\ ops_ = EmptyOps
    /\ nextId = 1
    /\ recording_ = Null
    /\ passOf = Null
    /\ sortedIndices_ = <<>>
    /\ hasBackend \in BOOLEAN
    /\ beginCalls = 0
    /\ endCalls = 0
    /\ executed = <<>>
    /\ executeCalls = 0
    /\ discarded = {}
    /\ last = "init"
    /\ call = NoCall
    /\ CanvasInit
    /\ NoRasterInit

frameVars == <<recording_, passOf, sortedIndices_, hasBackend, beginCalls,
               endCalls, executed, executeCalls, discarded, call, canvasVars,
               rasterVars>>

\* Device::fillRect etc. forward to the Recorder.
DeviceFillRect ==
    /\ nextId <= MaxCalls
    /\ \E r \in Rects, c \in Colors : RecorderFillRect(r, c)
    /\ last' = "draw"
    /\ UNCHANGED frameVars

DeviceStrokeRect ==
    /\ nextId <= MaxCalls
    /\ \E r \in Rects, c \in Colors : RecorderStrokeRect(r, c, HairWidth)
    /\ last' = "draw"
    /\ UNCHANGED frameVars

DeviceDrawLine ==
    /\ nextId <= MaxCalls
    /\ \E c \in Colors : RecorderDrawLine(Origin, Corner, c, HairWidth)
    /\ last' = "draw"
    /\ UNCHANGED frameVars

DeviceDrawImage ==
    /\ nextId <= MaxCalls
    /\ RecorderDrawImage(NullImage, 0, 0)
    /\ last' = "draw"
    /\ UNCHANGED frameVars

DeviceSetClipRect ==
    /\ nextId <= MaxCalls
    /\ \E r \in Rects : RecorderSetClip(r)
    /\ last' = "draw"
    /\ UNCHANGED frameVars

DeviceResetClip ==
    /\ nextId <= MaxCalls
    /\ RecorderClearClip
    /\ last' = "draw"
    /\ UNCHANGED frameVars

\* Surface::beginFrame : device_.beginFrame(); if (backend_) backend_->beginFrame();
\* A Surface with a Pixmap has the CpuBackend; of another backend only the
\* calls it receives are kept.
SurfaceBeginFrame ==
    /\ hasBackend => beginCalls < MaxFrameCalls
    /\ DeviceBeginFrame
    /\ beginCalls' = IF hasBackend THEN beginCalls + 1 ELSE beginCalls
    /\ discarded' = discarded \cup Ids(ops_) \cup Ids(recording_)
    /\ IF pixmap_ # NoPixmap
         THEN CpuBackendBeginFrame /\ UNCHANGED gl
         ELSE IF impl_ # Null
           THEN GLBackendBeginFrame /\ UNCHANGED <<heap, hasClip_, clipRect_>>
         ELSE UNCHANGED <<heap, hasClip_, clipRect_, gl>>
    /\ last' = "beginFrame"
    /\ UNCHANGED <<nextId, passOf, sortedIndices_, hasBackend, endCalls,
                   executed, executeCalls, call, canvasVars, pixmap_,
                   glyphCache_, snapshots, trace, gNextImageId, created,
                   gpuContext_, impl_>>

\* Surface::endFrame : device_.endFrame();
SurfaceEndFrame ==
    /\ DeviceEndFrame
    /\ last' = "endFrame"
    /\ UNCHANGED <<nextId, passOf, sortedIndices_, hasBackend, beginCalls,
                   endCalls, executed, executeCalls, discarded, call, canvasVars,
                   rasterVars>>

\* Surface::flush : recording = device_.finishRecording(); if (!recording) return;
\* if (backend_) { pass = DrawPass::create(*recording); backend_->execute(...); }
SurfaceFlush ==
    /\ (recording_ # Null /\ hasBackend) => executeCalls < MaxFrameCalls
    /\ DeviceFinishRecording
    /\ IF recording_ # Null /\ hasBackend
         THEN \E s \in DrawPassCreate(recording_) :
                /\ passOf' = recording_
                /\ sortedIndices_' = s
                /\ executed' = executed \o ExecutionOrder(recording_, s)
                /\ executeCalls' = executeCalls + 1
                /\ IF pixmap_ # NoPixmap
                     THEN /\ CpuBackendExecute(recording_, s)
                          /\ UNCHANGED <<gpuContext_, impl_, gl>>
                     ELSE IF impl_ # Null
                       THEN /\ GLBackendExecute(recording_, s)
                            /\ UNCHANGED <<heap, hasClip_, clipRect_>>
                     ELSE UNCHANGED <<heap, hasClip_, clipRect_, trace,
                                      gpuContext_, impl_, gl>>
         ELSE UNCHANGED <<passOf, sortedIndices_, executed, executeCalls,
                          heap, hasClip_, clipRect_, trace, gpuContext_, impl_, gl>>
    /\ UNCHANGED <<gNextImageId, created>>
    /\ last' = "flush"
    /\ UNCHANGED <<ops_, nextId, hasBackend, beginCalls, endCalls, discarded,
                   call, canvasVars, pixmap_, glyphCache_, snapshots>>

\* Surface::takeRecording : return device_.finishRecording();
SurfaceTakeRecording ==
    /\ DeviceFinishRecording
    /\ last' = "takeRecording"
    /\ UNCHANGED <<ops_, nextId, passOf, sortedIndices_, hasBackend, beginCalls,
                   endCalls, executed, executeCalls, discarded, call, canvasVars,
                   rasterVars>>

Next ==
    \/ DeviceFillRect
    \/ DeviceStrokeRect
    \/ DeviceDrawLine
    \/ DeviceDrawImage
    \/ DeviceSetClipRect
    \/ DeviceResetClip
    \/ SurfaceBeginFrame
    \/ SurfaceEndFrame
    \/ SurfaceFlush
    \/ SurfaceTakeRecording

Spec == Init /\ [][Next]_vars

(***************************************************************************)
(* RecorderSpec: a client that calls the Recorder's eight methods through  *)
(* a Device, seals with endFrame (recording_ = recorder_.finish()) and     *)
(* starts over with beginFrame.  `call` keeps what the client did: log is  *)
(* the calls made since the Recorder was last emptied, sealed the calls    *)
(* behind recording_, stores the arena stores made since the last reset    *)
(* with the offsets they returned.                                         *)
(***************************************************************************)
LineEnds == {<<Origin, Corner>>, <<Corner, Origin>>}
PointLists == {<<Origin, Corner>>, <<Corner, Origin, Corner>>}
Texts == {<<>>, <<65>>, <<72, 105>>}

NoCalls == [log |-> <<>>, sealed |-> <<>>, stores |-> <<>>]

RecorderInit ==
    /\ ops_ = EmptyOps
    /\ nextId = 1
    /\ recording_ = Null
    /\ passOf = Null
    /\ sortedIndices_ = <<>>
    /\ hasBackend = FALSE
    /\ beginCalls = 0
    /\ endCalls = 0
    /\ executed = <<>>
    /\ executeCalls = 0
    /\ discarded = {}
    /\ last = "init"
    /\ call = NoCalls
    /\ CanvasInit
    /\ heap = ClientHeap
    /\ pixmap_ = NoPixmap
    /\ hasClip_ = FALSE
    /\ clipRect_ = DefaultRect
    /\ glyphCache_ = FALSE
    /\ snapshots = <<>>
    /\ trace = Null
    /\ NoGl

recorderRest == <<recording_, passOf, sortedIndices_, hasBackend, beginCalls,
                  endCalls, executed, executeCalls, discarded, last, canvasVars,
                  rasterVars>>

Logged(c) == call' = [call EXCEPT !.log = Append(@, c)]
LoggedStore(c, kind, offset, payload) ==
    call' = [call EXCEPT
               !.log = Append(@, c),
               !.stores = Append(@, [kind |-> kind, offset |-> offset,
                                     payload |-> payload])]

CallFillRect ==
    /\ nextId <= MaxOps
    /\ \E r \in Rects, c \in Colors :
         /\ RecorderFillRect(r, c)
         /\ Logged([method |-> "fillRect", r |-> r, c |-> c])
    /\ UNCHANGED recorderRest

CallStrokeRect ==
    /\ nextId <= MaxOps
    /\ \E r \in Rects :
         /\ RecorderStrokeRect(r, Red, HairWidth)
         /\ Logged([method |-> "strokeRect", r |-> r, c |-> Red, width |-> HairWidth])
    /\ UNCHANGED recorderRest

CallDrawLine ==
    /\ nextId <= MaxOps
    /\ \E e \in LineEnds :
         /\ RecorderDrawLine(e[1], e[2], Blue, HairWidth)
         /\ Logged([method |-> "drawLine", p1 |-> e[1], p2 |-> e[2], c |-> Blue,
                    width |-> HairWidth])
    /\ UNCHANGED recorderRest

CallDrawPolyline ==
    /\ nextId <= MaxOps
    /\ \E pts \in PointLists :
         /\ RecorderDrawPolyline(pts, Len(pts), Red, HairWidth)
         /\ LoggedStore([method |-> "drawPolyline", pts |-> pts, count |-> Len(pts),
                         c |-> Red, width |-> HairWidth],
                        "points", ArenaStorePoints(ops_.arena, pts, Len(pts)).offset,
                        pts)
    /\ UNCHANGED recorderRest

CallDrawText ==
    /\ nextId <= MaxOps
    /\ \E text \in Texts :
         /\ RecorderDrawText(Corner, text, Blue)
         /\ LoggedStore([method |-> "drawText", p |-> Corner, text |-> text,
                         c |-> Blue],
                        "string", ArenaStoreString(ops_.arena, text).offset, text)
    /\ UNCHANGED recorderRest

CallDrawImage ==
    /\ nextId <= MaxOps
    /\ \E image \in ClientImages :
         /\ RecorderDrawImage(image, 1, 2)
         /\ Logged([method |-> "drawImage", image |-> image, x |-> 1, y |-> 2])
    /\ UNCHANGED recorderRest

CallSetClip ==
    /\ nextId <= MaxOps
    /\ \E r \in Rects :
         /\ RecorderSetClip(r)
         /\ Logged([method |-> "setClip", r |-> r])
    /\ UNCHANGED recorderRest

CallClearClip ==
    /\ nextId <= MaxOps
    /\ RecorderClearClip
    /\ Logged([method |-> "clearClip"])
    /\ UNCHANGED recorderRest

\* Device::endFrame; the arena moves into the Recording with the ops.
CallFinish ==
    /\ DeviceEndFrame
    /\ call' = [log |-> <<>>, sealed |-> call.log, stores |-> <<>>]
    /\ UNCHANGED <<nextId, passOf, sortedIndices_, hasBackend, beginCalls, endCalls,
                   executed, executeCalls, discarded, last, canvasVars, rasterVars>>

\* Device::beginFrame
CallReset ==
    /\ ~IsEmpty(ops_) \/ recording_ # Null
    /\ DeviceBeginFrame
    /\ call' = NoCalls
    /\ UNCHANGED <<nextId, passOf, sortedIndices_, hasBackend, beginCalls, endCalls,
                   executed, executeCalls, discarded, last, canvasVars, rasterVars>>

RecorderNext ==
    \/ CallFillRect
    \/ CallStrokeRect
    \/ CallDrawLine
    \/ CallDrawPolyline
    \/ CallDrawText
    \/ CallDrawImage
    \/ CallSetClip
    \/ CallClearClip
    \/ CallFinish
    \/ CallReset

RecorderSpec == RecorderInit /\ [][RecorderNext]_vars

(***************************************************************************)
(* Canvas.  canvas.hpp declares save, restore, clipRect, the State frame   *)
(* {hasClip, clip}, stack_, current_ and the private applyClip(); the      *)
(* bodies follow the specification's "Canvas clip stack" and "Canvas"      *)
(* sections and the comment of Canvas.SaveRestorePreservesClipState        *)
(* ("restore calls applyClip -> resetClip -> recorder.clearClip").         *)
(* Device::setClipRect and Device::resetClip forward to the Recorder.      *)
(***************************************************************************)
\* new = (max(ax, bx), max(ay, by), min(ax + aw, bx + bw) - x, ...), negative
\* width / height clamped to zero.
Intersect(a, b) ==
    LET x == Max(a.x, b.x)
        y == Max(a.y, b.y)
    IN  [x |-> x, y |-> y,
         w |-> Max(0, Min(a.x + a.w, b.x + b.w) - x),
         h |-> Max(0, Min(a.y + a.h, b.y + b.h) - y)]

\* applyClip with the State st current.
CanvasApplyClip(st) ==
    IF st.hasClip THEN RecorderSetClip(st.clip) ELSE RecorderClearClip

\* save: push the current frame.
CanvasSave ==
    /\ stack_' = Append(stack_, current_)
    /\ UNCHANGED <<current_, ops_, nextId>>

\* restore: nothing on an empty stack; else pop into current_ and applyClip.
CanvasRestore ==
    IF stack_ = <<>>
      THEN UNCHANGED <<stack_, current_, ops_, nextId>>
      ELSE /\ current_' = stack_[Len(stack_)]
           /\ stack_' = SubSeq(stack_, 1, Len(stack_) - 1)
           /\ CanvasApplyClip(stack_[Len(stack_)])

\* clipRect: intersect with the current clip if there is one, then applyClip.
CanvasClipRect(r) ==
    LET st == [hasClip |-> TRUE,
               clip |-> IF current_.hasClip THEN Intersect(current_.clip, r) ELSE r]
    IN  /\ current_' = st
        /\ CanvasApplyClip(st)
        /\ UNCHANGED stack_

\* fillRect forwards to the Device.
CanvasFillRect(r, c) ==
    /\ RecorderFillRect(r, c)
    /\ UNCHANGED <<stack_, current_>>

(***************************************************************************)
(* CanvasSpec: record(fn) of the Canvas tests: a Device after beginFrame,  *)
(* a Canvas on it, and up to MaxCanvasCalls client calls.  `call` is the   *)
(* log of the calls: for each its argument, the Canvas state and stack     *)
(* depth before it, the state after it and the ops it emitted.             *)
(***************************************************************************)
MaxCanvasCalls == 6

ClipRects == {[x |-> 0, y |-> 0, w |-> 4, h |-> 4],
              [x |-> 2, y |-> 2, w |-> 4, h |-> 4],
              [x |-> 6, y |-> 1, w |-> 2, h |-> 2]}

CanvasSpecInit ==
    /\ ops_ = EmptyOps
    /\ nextId = 1
    /\ recording_ = Null
    /\ passOf = Null
    /\ sortedIndices_ = <<>>
    /\ hasBackend = FALSE
    /\ beginCalls = 0
    /\ endCalls = 0
    /\ executed = <<>>
    /\ executeCalls = 0
    /\ discarded = {}
    /\ last = "init"
    /\ call = <<>>
    /\ CanvasInit
    /\ NoRasterInit

canvasRest == <<recording_, passOf, sortedIndices_, hasBackend, beginCalls,
                endCalls, executed, executeCalls, discarded, last, rasterVars>>

CanvasLogged(method, r) ==
    call' = Append(call, [method |-> method, r |-> r,
                          before |-> current_, depth |-> Len(stack_),
                          after |-> current_',
                          emitted |-> SubSeq(ops_'.ops, Len(ops_.ops) + 1,
                                             Len(ops_'.ops))])

ClientSave ==
    /\ Len(call) < MaxCanvasCalls
    /\ CanvasSave
    /\ CanvasLogged("save", DefaultRect)
    /\ UNCHANGED canvasRest

ClientRestore ==
    /\ Len(call) < MaxCanvasCalls
    /\ CanvasRestore
    /\ CanvasLogged("restore", DefaultRect)
    /\ UNCHANGED canvasRest

ClientClipRect ==
    /\ Len(call) < MaxCanvasCalls
    /\ \E r \in ClipRects :
         /\ CanvasClipRect(r)
         /\ CanvasLogged("clipRect", r)
    /\ UNCHANGED canvasRest

ClientFillRect ==
    /\ Len(call) < MaxCanvasCalls
    /\ \E r \in Rects :
         /\ CanvasFillRect(r, Red)
         /\ CanvasLogged("fillRect", r)
    /\ UNCHANGED canvasRest

CanvasNext ==
    \/ ClientSave
    \/ ClientRestore
    \/ ClientClipRect
    \/ ClientFillRect

CanvasSpec == CanvasSpecInit /\ [][CanvasNext]_vars

(***************************************************************************)
(* RasterSpec: a Surface from MakeRaster(GridW, GridH, fmt) with its       *)
(* CpuBackend: draw calls, beginFrame, endFrame, flush, makeSnapshot,      *)
(* resize and setGlyphCache.                                               *)
(***************************************************************************)
\* Size of the raster Surface, and how many snapshots are taken of it.
GridW == 4
GridH == 4
MaxSnapshots == 1

Green == [r |-> 0, g |-> 255, b |-> 0, a |-> 255]
HalfGreen == [r |-> 0, g |-> 255, b |-> 0, a |-> 128]
ClearWhite == [r |-> 255, g |-> 255, b |-> 255, a |-> 0]

BackendClips == {[x |-> 1, y |-> 1, w |-> 2, h |-> 2]}

\* The fills, strokes and images the client draws.
PaintFills ==
    {[r |-> [x |-> 1, y |-> 0, w |-> 2, h |-> 3], c |-> Red],
     [r |-> [x |-> 0, y |-> 0, w |-> 4, h |-> 4], c |-> ClearWhite]}
PaintStrokes ==
    {[r |-> [x |-> 0, y |-> 0, w |-> 3, h |-> 3], c |-> Blue, width |-> 2 * HairWidth]}
PaintImages ==
    {[image |-> [addr |-> 1, format |-> "RGBA8888"], at |-> Corner],
     [image |-> TransparentImage, at |-> Origin]}

RasterInit ==
    /\ ops_ = EmptyOps
    /\ nextId = 1
    /\ recording_ = Null
    /\ passOf = Null
    /\ sortedIndices_ = <<>>
    /\ hasBackend = TRUE
    /\ beginCalls = 0
    /\ endCalls = 0
    /\ executed = <<>>
    /\ executeCalls = 0
    /\ discarded = {}
    /\ last = "init"
    /\ call = NoCall
    /\ CanvasInit
    /\ \E fill \in AllocFills : heap = PixmapAlloc(ClientHeap, GridW, GridH, fill)
    /\ \E fmt \in Formats : pixmap_ = [addr |-> Len(ClientHeap) + 1, format |-> fmt]
    /\ hasClip_ = FALSE
    /\ clipRect_ = DefaultRect
    /\ glyphCache_ = FALSE
    /\ snapshots = <<>>
    /\ trace = Null
    /\ NoGl

\* The client follows the lifecycle begin_frame, draw commands, end_frame,
\* flush, then optionally makeSnapshot and resize.  Draw calls made on the
\* Surface over its life are bounded.
InFrame == last \in {"beginFrame", "draw"}
BetweenFrames == last \in {"init", "setGlyphCache", "flush", "makeSnapshot", "resize"}

CanPaint ==
    /\ InFrame
    /\ nextId <= MaxCalls

paintRest == <<recording_, passOf, sortedIndices_, hasBackend, beginCalls,
               endCalls, executed, executeCalls, discarded, call, canvasVars,
               rasterVars>>

PaintFillRect ==
    /\ CanPaint
    /\ \E f \in PaintFills : RecorderFillRect(f.r, f.c)
    /\ last' = "draw"
    /\ UNCHANGED paintRest

PaintStrokeRect ==
    /\ CanPaint
    /\ \E f \in PaintStrokes : RecorderStrokeRect(f.r, f.c, f.width)
    /\ last' = "draw"
    /\ UNCHANGED paintRest

PaintLine ==
    /\ CanPaint
    /\ RecorderDrawLine(Corner, Origin, Green, HairWidth)
    /\ last' = "draw"
    /\ UNCHANGED paintRest

PaintPolyline ==
    /\ CanPaint
    /\ \E pts \in {<<Corner, Origin, Corner>>} :
         RecorderDrawPolyline(pts, Len(pts), HalfGreen, HairWidth)
    /\ last' = "draw"
    /\ UNCHANGED paintRest

PaintText ==
    /\ CanPaint
    /\ RecorderDrawText(Origin, <<72, 105>>, Red)
    /\ last' = "draw"
    /\ UNCHANGED paintRest

PaintImage ==
    /\ CanPaint
    /\ \E d \in PaintImages : RecorderDrawImage(d.image, d.at.x, d.at.y)
    /\ last' = "draw"
    /\ UNCHANGED paintRest

PaintSetClip ==
    /\ CanPaint
    /\ \E r \in BackendClips : RecorderSetClip(r)
    /\ last' = "draw"
    /\ UNCHANGED paintRest

PaintClearClip ==
    /\ CanPaint
    /\ RecorderClearClip
    /\ last' = "draw"
    /\ UNCHANGED paintRest

FrameBegin == BetweenFrames /\ SurfaceBeginFrame

\* The client of RasterSpec installs its glyph cache before the first frame.
FrameBeginWithGlyphs == glyphCache_ /\ FrameBegin

FrameEnd == InFrame /\ SurfaceEndFrame

FrameFlush == last = "endFrame" /\ SurfaceFlush

\* Surface::makeSnapshot : Image::MakeFromPixmap(*pixmap_).  The snapshot is
\* kept with the pixels and size it had when taken.
SurfaceMakeSnapshot ==
    /\ last = "flush"
    /\ Len(snapshots) < MaxSnapshots
    /\ LET made == ImageMakeFromPixmap(heap, pixmap_)
       IN  /\ heap' = made.heap
           /\ snapshots' = Append(snapshots,
                                  [image |-> made.image, taken |-> heap[pixmap_.addr]])
           /\ ImageImage([w |-> heap[pixmap_.addr].w, h |-> heap[pixmap_.addr].h,
                          format |-> pixmap_.format],
                         "CpuPixmap", made.image.addr, 0)
    /\ last' = "makeSnapshot"
    /\ UNCHANGED <<ops_, nextId, recording_, passOf, sortedIndices_, hasBackend,
                   beginCalls, endCalls, executed, executeCalls, discarded, call,
                   canvasVars, pixmap_, hasClip_, clipRect_, glyphCache_, trace,
                   gpuContext_, impl_, gl>>

\* Surface::resize(w, h) : pixmap_->reallocate(info); backend_->resize is empty.
SurfaceResize ==
    /\ last \in {"flush", "makeSnapshot"}
    /\ heap[pixmap_.addr].w = GridW
    /\ \E fill \in AllocFills :
         heap' = PixmapReallocate(heap, pixmap_, GridW - 1, GridH - 1, fill)
    /\ last' = "resize"
    /\ UNCHANGED <<ops_, nextId, recording_, passOf, sortedIndices_, hasBackend,
                   beginCalls, endCalls, executed, executeCalls, discarded, call,
                   canvasVars, pixmap_, hasClip_, clipRect_, glyphCache_, snapshots,
                   trace, glVars>>

\* Surface::setGlyphCache(cache) : backend_->setGlyphCache(cache)
SurfaceSetGlyphCache ==
    /\ last = "init"
    /\ glyphCache_' = TRUE
    /\ last' = "setGlyphCache"
    /\ UNCHANGED <<ops_, nextId, recording_, passOf, sortedIndices_, hasBackend,
                   beginCalls, endCalls, executed, executeCalls, discarded, call,
                   canvasVars, heap, pixmap_, hasClip_, clipRect_, snapshots, trace,
                   glVars>>

RasterNext ==
    \/ PaintFillRect
    \/ PaintStrokeRect
    \/ PaintLine
    \/ PaintPolyline
    \/ PaintText
    \/ PaintImage
    \/ PaintSetClip
    \/ PaintClearClip
    \/ FrameBeginWithGlyphs
    \/ FrameEnd
    \/ FrameFlush
    \/ SurfaceMakeSnapshot
    \/ SurfaceResize
    \/ SurfaceSetGlyphCache

RasterSpec == RasterInit /\ [][RasterNext]_vars

(***************************************************************************)
(* A raster Surface on which a client stacks images: a loop of drawImage   *)
(* calls, then single drawImage calls, in one frame.  Every op is a        *)
(* DrawImage with the default colour and no clip, so DrawPass orders them  *)
(* by sequence number alone.                                               *)
(***************************************************************************)
\* Calls drawImage makes in the loop: the u8 sequence number reaches its end.
ImageLoopCalls == U8Mod - 1

LayerImages ==
    {[image |-> [addr |-> 1, format |-> "RGBA8888"], at |-> Origin],
     [image |-> [addr |-> 2, format |-> "RGBA8888"], at |-> Origin],
     [image |-> [addr |-> 2, format |-> "RGBA8888"], at |-> Corner]}

\* The loop draws n times one image at one place, first thing in the frame.
LayerLoop ==
    /\ last = "beginFrame"
    /\ nextId = 1
    /\ \E d \in LayerImages : \E n \in {ImageLoopCalls - 1, ImageLoopCalls} :
         RecorderDrawImageLoop(d.image, d.at.x, d.at.y, n)
    /\ last' = "draw"
    /\ UNCHANGED paintRest

LayerImage ==
    /\ InFrame
    /\ OpCount(ops_) - ops_.run < MaxCalls
    /\ \E d \in LayerImages : RecorderDrawImage(d.image, d.at.x, d.at.y)
    /\ last' = "draw"
    /\ UNCHANGED paintRest

\* The client draws one frame.
LayerBegin == last = "init" /\ SurfaceBeginFrame

LayerNext ==
    \/ LayerLoop
    \/ LayerImage
    \/ LayerBegin
    \/ FrameEnd
    \/ FrameFlush

LayerSpec == RasterInit /\ [][LayerNext]_vars

(***************************************************************************)
(* A raster Surface whose client draws one frame with coordinates that     *)
(* leave the target: rects, lines and images that start left of or above   *)
(* it or end right of or below it, under clip rects that do the same.      *)
(***************************************************************************)
StrayRects ==
    {[x |-> 0 - 1, y |-> 0 - 1, w |-> 3, h |-> 3],
     [x |-> 2, y |-> 1, w |-> GridW, h |-> GridH]}
StrayClips ==
    {[x |-> 0 - 1, y |-> 0 - 1, w |-> GridW + 2, h |-> GridH + 2],
     [x |-> 2, y |-> 0 - 1, w |-> GridW, h |-> 3]}
StrayLines ==
    {<<[x |-> 0 - 1, y |-> 0 - 1], [x |-> GridW + 1, y |-> 2]>>,
     <<[x |-> 1, y |-> GridH + 1], [x |-> 0 - 2, y |-> 0]>>}
StrayPoints ==
    {[x |-> 0 - 1, y |-> 0 - 1], [x |-> GridW - 1, y |-> GridH - 1]}
StrayColors == {Red, HalfGreen}

StrayFillRect ==
    /\ CanPaint
    /\ \E r \in StrayRects : \E c \in StrayColors : RecorderFillRect(r, c)
    /\ last' = "draw"
    /\ UNCHANGED paintRest

StrayStrokeRect ==
    /\ CanPaint
    /\ \E r \in StrayRects : \E c \in StrayColors : RecorderStrokeRect(r, c, HairWidth)
    /\ last' = "draw"
    /\ UNCHANGED paintRest

StrayLine ==
    /\ CanPaint
    /\ \E l \in StrayLines : RecorderDrawLine(l[1], l[2], HalfGreen, HairWidth)
    /\ last' = "draw"
    /\ UNCHANGED paintRest

StrayImage ==
    /\ CanPaint
    /\ \E p \in StrayPoints :
         RecorderDrawImage([addr |-> 1, format |-> "RGBA8888"], p.x, p.y)
    /\ last' = "draw"
    /\ UNCHANGED paintRest

StraySetClip ==
    /\ CanPaint
    /\ \E r \in StrayClips : RecorderSetClip(r)
    /\ last' = "draw"
    /\ UNCHANGED paintRest

BoundsNext ==
    \/ StrayFillRect
    \/ StrayStrokeRect
    \/ StrayLine
    \/ StrayImage
    \/ StraySetClip
    \/ LayerBegin
    \/ FrameEnd
    \/ FrameFlush

BoundsSpec == RasterInit /\ [][BoundsNext]_vars

(***************************************************************************)
(* A raster Surface drawn on through its Canvas (Surface::canvas(), made   *)
(* once in the constructor) over several frames: clipRect, save, restore   *)
(* and fillRect between beginFrame and endFrame, then flush.               *)
(***************************************************************************)
frameClipRest == <<recording_, passOf, sortedIndices_, hasBackend, beginCalls,
                   endCalls, executed, executeCalls, discarded, call, rasterVars>>

FrameClipRect ==
    /\ CanPaint
    /\ \E r \in BackendClips \cup Rects : CanvasClipRect(r)
    /\ last' = "draw"
    /\ UNCHANGED frameClipRest

FrameSave ==
    /\ InFrame
    /\ Len(stack_) < MaxCalls
    /\ CanvasSave
    /\ last' = "draw"
    /\ UNCHANGED frameClipRest

FrameRestore ==
    /\ CanPaint
    /\ CanvasRestore
    /\ last' = "draw"
    /\ UNCHANGED frameClipRest

FrameFillRect ==
    /\ CanPaint
    /\ \E f \in PaintFills : CanvasFillRect(f.r, f.c)
    /\ last' = "draw"
    /\ UNCHANGED frameClipRest

FrameClipNext ==
    \/ FrameClipRect
    \/ FrameSave
    \/ FrameRestore
    \/ FrameFillRect
    \/ FrameBegin
    \/ FrameEnd
    \/ FrameFlush

FrameClipSpec == RasterInit /\ [][FrameClipNext]_vars

(***************************************************************************)
(* GpuSpec: a client that asks for a GPU Surface with Surface::MakeGpu,    *)
(* makes Images, draws frames on the Surface it got and lets the context   *)
(* go at the end.                                                          *)
(***************************************************************************)
\* Images the client makes.
MaxImages == 2

\* What the client passes as context: nullptr, a GpuContext without impl_
\* (valid() is impl_ != nullptr) and a valid one with an empty image cache.
InvalidContext == [valid |-> FALSE, cpuImageCache_ |-> <<>>]
ValidContext == [valid |-> TRUE, cpuImageCache_ |-> <<>>]

\* The contexts and formats the client calls MakeGpu with.
GpuRequests ==
    {[context |-> Null, format |-> "BGRA8888"],
     [context |-> Null, format |-> "RGBA8888"],
     [context |-> InvalidContext, format |-> "RGBA8888"],
     [context |-> ValidContext, format |-> "BGRA8888"]}

\* The texture name of the client's own GL texture.
ClientTexture == 7

GpuInit ==
    /\ ops_ = EmptyOps
    /\ nextId = 1
    /\ recording_ = Null
    /\ passOf = Null
    /\ sortedIndices_ = <<>>
    /\ hasBackend = FALSE
    /\ beginCalls = 0
    /\ endCalls = 0
    /\ executed = <<>>
    /\ executeCalls = 0
    /\ discarded = {}
    /\ last = "init"
    /\ call = NoCall
    /\ CanvasInit
    /\ heap = ClientHeap
    /\ pixmap_ = NoPixmap
    /\ hasClip_ = FALSE
    /\ clipRect_ = DefaultRect
    /\ glyphCache_ = FALSE
    /\ snapshots = <<>>
    /\ trace = Null
    /\ gNextImageId = 1
    /\ created = <<>>
    /\ gpuContext_ = Null
    /\ impl_ = Null
    /\ \E has \in BOOLEAN : gl = [NoGlState EXCEPT !.hasGL = has]

\* GLBackend::Make(context, w, h) with the batches of a new Impl empty.
GLBackendMake(context, w, h) ==
    IF context = Null \/ ~context.valid THEN Null
    ELSE [width |-> w, height |-> h, colorVerts |-> <<>>, texVerts |-> <<>>]

\* Surface::MakeRaster(w, h, fmt) : Pixmap::Alloc and a CpuBackend on it.
SurfaceMakeRaster(w, h, fmt, fill) ==
    /\ heap' = PixmapAlloc(heap, w, h, fill)
    /\ pixmap_' = [addr |-> Len(heap) + 1, format |-> fmt]
    /\ impl_' = Null
    /\ gpuContext_' = Null

\* Surface::MakeGpu that returns nullptr where the code falls back.
SurfaceMakeGpuNoFallback(context, w, h, fmt, fill) ==
    LET backend == IF gl.hasGL THEN GLBackendMake(context, w, h) ELSE Null
    IN  /\ impl_' = backend
        /\ gpuContext_' = IF backend # Null THEN context ELSE Null
        /\ hasBackend' = (backend # Null)
        /\ UNCHANGED <<heap, pixmap_>>

\* Surface::MakeGpu(context, w, h, fmt)
SurfaceMakeGpu(context, w, h, fmt, fill) ==
    LET backend == IF gl.hasGL THEN GLBackendMake(context, w, h) ELSE Null
    IN  /\ IF context = Null \/ ~context.valid
             THEN SurfaceMakeRaster(w, h, fmt, fill)
           ELSE IF backend # Null
             THEN /\ impl_' = backend
                  /\ gpuContext_' = context
                  /\ UNCHANGED <<heap, pixmap_>>
           ELSE SurfaceMakeRaster(w, h, fmt, fill)
        /\ hasBackend' = TRUE

ClientMakeGpu ==
    /\ last = "init"
    /\ \E q \in GpuRequests : \E fill \in AllocFills :
         /\ SurfaceMakeGpu(q.context, GridW, GridH, q.format, fill)
         /\ call' = [method |-> "makeGpu", context |-> q.context,
                     w |-> GridW, h |-> GridH, format |-> q.format]
    /\ last' = "makeGpu"
    /\ UNCHANGED <<ops_, nextId, recording_, passOf, sortedIndices_, beginCalls,
                   endCalls, executed, executeCalls, discarded, canvasVars,
                   hasClip_, clipRect_, glyphCache_, snapshots, trace,
                   gNextImageId, created, gl>>

imageRest == <<ops_, nextId, recording_, passOf, sortedIndices_, hasBackend,
               beginCalls, endCalls, executed, executeCalls, discarded, call,
               canvasVars, pixmap_, hasClip_, clipRect_, glyphCache_, snapshots,
               trace, gpuContext_, impl_, gl>>

\* Image::MakeFromPixmap(src) : nullptr for an invalid Pixmap, else an Image
\* on a copy of the pixels.
ClientMakeImage ==
    /\ last \in {"makeGpu", "makeImage"}
    /\ Len(created) < MaxImages
    /\ \E src \in {NoPixmap, [addr |-> 1, format |-> "RGBA8888"]} :
         IF src = NoPixmap
           THEN UNCHANGED <<heap, gNextImageId, created>>
           ELSE LET made == ImageMakeFromPixmap(heap, src)
                IN  /\ heap' = made.heap
                    /\ ImageImage([w |-> heap[src.addr].w, h |-> heap[src.addr].h,
                                   format |-> src.format],
                                  "CpuPixmap", made.image.addr, 0)
    /\ last' = "makeImage"
    /\ UNCHANGED imageRest

\* Image::MakeFromBackendTexture(handle, w, h, fmt) : nullptr for handle 0.
ClientMakeImageFromTexture ==
    /\ last \in {"makeGpu", "makeImage"}
    /\ Len(created) < MaxImages
    /\ \A k \in DOMAIN created : IsCpuBacked(created[k])
    /\ \E handle \in {0, ClientTexture} :
         IF handle = 0
           THEN UNCHANGED <<gNextImageId, created>>
           ELSE ImageImage([w |-> 2, h |-> 2, format |-> "RGBA8888"],
                           "GpuTexture", 0, handle)
    /\ last' = "makeImage"
    /\ UNCHANGED <<heap, imageRest>>

GpuFillRect ==
    /\ CanPaint
    /\ RecorderFillRect([x |-> 1, y |-> 0, w |-> 2, h |-> 3], Red)
    /\ last' = "draw"
    /\ UNCHANGED paintRest

GpuLine ==
    /\ CanPaint
    /\ RecorderDrawLine(Origin, [x |-> 2, y |-> 0], Green, 2 * HairWidth)
    /\ last' = "draw"
    /\ UNCHANGED paintRest

GpuDrawImage ==
    /\ CanPaint
    /\ \E k \in DOMAIN created : RecorderDrawImage(created[k], Corner.x, Corner.y)
    /\ last' = "draw"
    /\ UNCHANGED paintRest

\* The client draws its frames if the Surface it got is a GPU one.
GpuBegin ==
    /\ last \in {"makeGpu", "makeImage", "flush"}
    /\ impl_ # Null
    /\ SurfaceBeginFrame

\* The Surface and the client let go of the GpuContext after the last flush.
GpuContextRelease ==
    /\ last = "flush"
    /\ gpuContext_ # Null
    /\ GLGpuImplDestroy
    /\ last' = "release"
    /\ UNCHANGED <<ops_, nextId, recording_, passOf, sortedIndices_, hasBackend,
                   beginCalls, endCalls, executed, executeCalls, discarded, call,
                   canvasVars, heap, pixmap_, hasClip_, clipRect_, glyphCache_,
                   snapshots, trace, gNextImageId, created, impl_>>

GpuNext ==
    \/ ClientMakeGpu
    \/ ClientMakeImage
    \/ ClientMakeImageFromTexture
    \/ GpuFillRect
    \/ GpuLine
    \/ GpuDrawImage
    \/ PaintSetClip
    \/ PaintClearClip
    \/ GpuBegin
    \/ FrameEnd
    \/ FrameFlush
    \/ GpuContextRelease

GpuSpec == GpuInit /\ [][GpuNext]_vars

(***************************************************************************)
(* Vocabulary of the properties.                                           *)
(***************************************************************************)
\* sortedIndices_ is kept as index runs; the position of an index is the run
\* that holds it and its place in that run.
SegOf(s, i) == CHOOSE k \in DOMAIN s : s[k].lo <= i /\ i <= s[k].hi
Precedes(s, i, j) ==
    LET a == SegOf(s, i)
        b == SegOf(s, j)
    IN  a < b \/ (a = b /\ i < j)

RECURSIVE SumLen(_)
SumLen(s) == IF s = <<>> THEN 0 ELSE (Head(s).hi - Head(s).lo + 1) + SumLen(Tail(s))

\* Indices of the ops recorded one by one (after the run).
Explicit(R) == R.run .. (OpCount(R) - 1)

\* Number of SetClip / ClearClip ops recorded before index i.
ClipsBefore(R, i) ==
    (IF IsClipChange(R.runOp) THEN (IF i < R.run THEN i ELSE R.run) ELSE 0)
      + Cardinality({m \in Explicit(R) : m < i /\ IsClipChange(OpAt(R, m))})

\* The clip group id the walk assigns to op i: a u16 that starts at 0 and is
\* incremented after each clip change (the clip change itself is keyed first).
ClipGroupId(R, i) == ClipsBefore(R, i) % U16Mod

\* Same clip group: no clip change recorded between the two ops.
SameGroup(R, i, j) == ClipsBefore(R, i) = ClipsBefore(R, j)

\* Index of the first op of the clip group of op i, and the number of ops of
\* that group recorded before op i.
GroupStart(R, i) ==
    LET cs == {m \in Explicit(R) : m < i /\ IsClipChange(OpAt(R, m))}
    IN  IF cs # {} THEN (CHOOSE m \in cs : \A n \in cs : n <= m) + 1
        ELSE IF IsClipChange(R.runOp) THEN (IF i < R.run THEN i ELSE R.run)
        ELSE 0
SeqInGroup(R, i) == i - GroupStart(R, i)

\* colorHash of SortKey::make compared as the 32-bit number r:g:b:a.
ColorHashLess(c, d) == LexLess(<<c.r, c.g, c.b, c.a>>, <<d.r, d.g, d.b, d.a>>)

\* Indices that stand for all: every op recorded one by one and both ends of
\* every index run of s (a run holds consecutive copies of one op).
Sample(R, s) == Explicit(R) \cup {s[k].lo : k \in DOMAIN s} \cup {s[k].hi : k \in DOMAIN s}

(***************************************************************************)
(* Properties of DrawPass::create, checked under PassSpec.                 *)
(***************************************************************************)
\* C1: sorted_indices is a permutation of 0..len-1 for every Recording, the
\* empty one included: it has len entries, every entry is in range and no
\* index occurs twice.
C1_SortedIndicesIsPermutation ==
    passOf # Null =>
      LET s == sortedIndices_
          n == OpCount(passOf)
      IN  /\ SumLen(s) = n
          /\ \A k \in DOMAIN s : 0 <= s[k].lo /\ s[k].lo <= s[k].hi /\ s[k].hi < n
          /\ \A k, m \in DOMAIN s : k # m => (s[k].hi < s[m].lo \/ s[m].hi < s[k].lo)

C1_Witness ==
    /\ passOf # Null
    /\ OpCount(passOf) >= 3
    /\ \E k \in DOMAIN sortedIndices_ :
         k < Len(sortedIndices_) /\ sortedIndices_[k].lo > sortedIndices_[k + 1].lo

\* C2: every SetClip and every ClearClip stands at the start of the clip group
\* it opens: it precedes, in sorted_indices, every draw op recorded after it
\* and before the next clip change.  (Of a run of clip changes only the last
\* one has draws recorded before the next clip change.)
C2_ClipChangeStartsItsGroup ==
    passOf # Null =>
      \A i \in Explicit(passOf) \cup (IF passOf.run > 0 THEN {passOf.run - 1} ELSE {}) :
        \A j \in Explicit(passOf) :
          ( /\ i < j
            /\ IsClipChange(OpAt(passOf, i))
            /\ ~IsClipChange(OpAt(passOf, j))
            /\ \A m \in (i + 1)..(j - 1) : ~IsClipChange(OpAt(passOf, m)) )
          => Precedes(sortedIndices_, i, j)

\* C3: along sorted_indices the clip group id never decreases, whatever the
\* number of SetClip / ClearClip ops.  Inside an index run the ids step by 0
\* (copies of a draw) or by 1 modulo 2^16 (copies of a clip change) over fewer
\* than 2^16 ops, so they never decrease exactly when the first id is not
\* above the last; between runs the neighbours are compared.
C3_ClipGroupIdMonotone ==
    passOf # Null =>
      LET s == sortedIndices_
      IN  /\ \A k \in DOMAIN s :
               ClipGroupId(passOf, s[k].lo) <= ClipGroupId(passOf, s[k].hi)
          /\ \A k \in DOMAIN s : k < Len(s) =>
               ClipGroupId(passOf, s[k].hi) <= ClipGroupId(passOf, s[k + 1].lo)

\* A pass over more than 2^16 clip changes: the id has wrapped and the draw
\* recorded last shares its id with the first group.
C3_Witness ==
    /\ passOf # Null
    /\ ClipsBefore(passOf, OpCount(passOf)) >= U16Mod
    /\ ~IsClipChange(OpAt(passOf, OpCount(passOf) - 1))
    /\ sortedIndices_[1].lo = OpCount(passOf) - 1

\* C4: inside a maximal run of sorted_indices whose ops share one clip group
\* id the types never decrease (FillRect, StrokeRect, Line, Polyline, Text,
\* DrawImage, SetClip, ClearClip).  Neighbours inside an index run are copies
\* of one op; neighbours of two index runs are compared.
C4_TypesAscendInsideGroup ==
    passOf # Null =>
      LET s == sortedIndices_
      IN  \A k \in DOMAIN s : k < Len(s) =>
            (ClipGroupId(passOf, s[k].hi) = ClipGroupId(passOf, s[k + 1].lo)
               => OpAt(passOf, s[k].hi).type <= OpAt(passOf, s[k + 1].lo).type)

\* A group recorded with a higher type before a lower one, of two colours such
\* that sorting by colour first would keep the recorded order.
C4_Witness ==
    /\ passOf # Null
    /\ \E i, j \in Explicit(passOf) :
         /\ i < j
         /\ SameGroup(passOf, i, j)
         /\ OpAt(passOf, i).type > OpAt(passOf, j).type
         /\ ColorHashLess(OpAt(passOf, i).color, OpAt(passOf, j).color)
         /\ Precedes(sortedIndices_, j, i)

\* Two ops the tie-break is about: i recorded before j in the same clip group,
\* with the same type and the same colour.
SameBatch(R, i, j) ==
    /\ i < j
    /\ SameGroup(R, i, j)
    /\ OpAt(R, i).type = OpAt(R, j).type
    /\ OpAt(R, i).color = OpAt(R, j).color

\* C5 as stated: two ops of one clip group with the same type and colour keep
\* their recorded order in sorted_indices, however many such ops the group
\* contains.
C5_BatchKeepsRecordedOrder ==
    passOf # Null =>
      \A i, j \in Sample(passOf, sortedIndices_) :
        SameBatch(passOf, i, j) => Precedes(sortedIndices_, i, j)

\* C5 as amended: two ops of one clip group with the same type and colour keep
\* their recorded order in sorted_indices when both are among the first 256
\* ops of the group (the sequence byte has not wrapped between them).
C5_BatchKeepsRecordedOrderFirst256 ==
    passOf # Null =>
      \A i, j \in Sample(passOf, sortedIndices_) :
        ( /\ SameBatch(passOf, i, j)
          /\ SeqInGroup(passOf, j) < U8Mod )
        => Precedes(sortedIndices_, i, j)

\* Two ops of one batch with an op of the same type and a lower colour
\* recorded between them: the sort moves that op ahead of both, and the
\* sequence byte alone keeps the two in order.
C5_Witness ==
    /\ passOf # Null
    /\ \E i, m, j \in Explicit(passOf) :
         /\ i < m /\ m < j
         /\ SameBatch(passOf, i, j)
         /\ SameGroup(passOf, i, m)
         /\ OpAt(passOf, m).type = OpAt(passOf, i).type
         /\ ColorHashLess(OpAt(passOf, m).color, OpAt(passOf, i).color)
         /\ Precedes(sortedIndices_, m, i)
         /\ Precedes(sortedIndices_, i, j)

\* The scenario of C6: exactly fill_rect A, stroke_rect B, fill_rect C.
FillStrokeFill(R) ==
    /\ R # Null
    /\ R.run = 0
    /\ Len(R.ops) = 3
    /\ R.ops[1].type = FillRect
    /\ R.ops[2].type = StrokeRect
    /\ R.ops[3].type = FillRect

\* The two fills (indices 0 and 2) are neighbours in sorted_indices.
FillsAdjacent(s) ==
    \/ SegOf(s, 0) - SegOf(s, 2) = 1
    \/ SegOf(s, 2) - SegOf(s, 0) = 1

\* C6 as stated: after fill_rect A, stroke_rect B, fill_rect C the two fills
\* are adjacent in sorted_indices and A comes strictly before C, whatever the
\* colours of A and C.
C6_FillsAdjacentAFirst ==
    FillStrokeFill(passOf) =>
      FillsAdjacent(sortedIndices_) /\ Precedes(sortedIndices_, 0, 2)

\* C6 as amended: the two fills are adjacent and precede B, and A comes before
\* C exactly when the colour of C, packed as r:g:b:a, is not below that of A
\* (equal colours included); otherwise C comes first.
C6_FillsAdjacentLowerColorFirst ==
    FillStrokeFill(passOf) =>
      /\ FillsAdjacent(sortedIndices_)
      /\ Precedes(sortedIndices_, 0, 1)
      /\ Precedes(sortedIndices_, 2, 1)
      /\ Precedes(sortedIndices_, 0, 2)
           <=> ~ColorHashLess(passOf.ops[3].color, passOf.ops[1].color)

\* Both cases of the scenario are built: the same colour twice (A first), and
\* C of the lower colour (C first).
C6_Witness ==
    /\ FillStrokeFill(passOf)
    /\ ColorHashLess(passOf.ops[3].color, passOf.ops[1].color)
    /\ Precedes(sortedIndices_, 2, 0)

(***************************************************************************)
(* Properties of the Surface frame calls, checked under Spec.              *)
(***************************************************************************)
\* How often the backend executed the op with this id.
TimesExecuted(id) == Cardinality({k \in DOMAIN executed : executed[k] = id})

\* Ids of the ops recorded so far.
Recorded == 1..(nextId - 1)

\* C8 as stated: on a Surface with a backend, flush finalizes the ops recorded
\* so far, executes them and leaves the Recorder empty: after a flush the
\* Recorder is empty and every op drawn and not reset away by begin_frame has
\* been executed exactly once.
C8_FlushFinalizesAndExecutes ==
    (last = "flush" /\ hasBackend) =>
      /\ IsEmpty(ops_)
      /\ \A id \in Recorded \ discarded : TimesExecuted(id) = 1

\* C8 as amended: on a Surface with a backend, flush takes the Recording that
\* end_frame sealed, if there is one, and has the backend execute it exactly
\* once (each of its ops once, nothing else); it leaves the Surface without a
\* sealed Recording and does not touch the Recorder (ops drawn since the last
\* end_frame stay there, unexecuted); no op is ever executed twice.
C8_FlushExecutesSealedRecordingOnce ==
    [][ (last' = "flush" /\ hasBackend) =>
          /\ recording_' = Null
          /\ ops_' = ops_
          /\ IF recording_ # Null
               THEN /\ executeCalls' = executeCalls + 1
                    /\ Len(executed') = Len(executed) + OpCount(recording_)
                    /\ SubSeq(executed', 1, Len(executed)) = executed
                    /\ {executed'[k] : k \in (Len(executed) + 1)..Len(executed')}
                         = Ids(recording_)
               ELSE executeCalls' = executeCalls /\ executed' = executed
          /\ \A id \in Recorded : TimesExecuted(id)' <= 1 ]_vars

\* A flush that executed a sealed op while an op drawn after end_frame stays
\* in the Recorder.
C8_Witness ==
    /\ last = "flush"
    /\ hasBackend
    /\ executed # <<>>
    /\ ~IsEmpty(ops_)

\* C9: after begin_frame the Recorder holds no ops and the Surface holds no
\* sealed Recording, and no op that a begin_frame reset away (drawn or sealed
\* before it and not yet flushed) is ever executed.
C9_BeginFrameDropsUnflushedOps ==
    /\ (last = "beginFrame" => (IsEmpty(ops_) /\ recording_ = Null))
    /\ \A k \in DOMAIN executed : executed[k] \notin discarded

\* An op was reset away by a begin_frame and a later flush executed the op
\* drawn after it.
C9_Witness ==
    /\ last = "flush"
    /\ discarded # {}
    /\ \E k \in DOMAIN executed : \A d \in discarded : d < executed[k]

\* C10: on a Surface with a backend, end_frame seals the ops recorded so far
\* into the Surface's Recording and calls the backend's end_frame exactly once.
C10_EndFrameSealsAndCallsBackend ==
    [][ (last' = "endFrame" /\ hasBackend) =>
          /\ recording_' = ops_
          /\ endCalls' = endCalls + 1 ]_vars

(***************************************************************************)
(* Properties of the Recorder and its arena, checked under RecorderSpec.   *)
(***************************************************************************)
\* The op is the one the call c records: its type, and every argument of the
\* call where the method puts it (points and text through the arena, the image
\* through images_).
Describes(R, op, c) ==
    CASE c.method = "fillRect" ->
           op.type = FillRect /\ op.color = c.c /\ DataRect(op.data) = c.r
      [] c.method = "strokeRect" ->
           /\ op.type = StrokeRect /\ op.color = c.c /\ op.width = c.width
           /\ DataRect(op.data) = c.r
      [] c.method = "drawLine" ->
           /\ op.type = Line /\ op.color = c.c /\ op.width = c.width
           /\ op.data = <<c.p1.x, c.p1.y, c.p2.x, c.p2.y>>
      [] c.method = "drawPolyline" ->
           /\ op.type = Polyline /\ op.color = c.c /\ op.width = c.width
           /\ op.data[2] = c.count
           /\ op.data[1] + c.count * SizeofPoint <= Len(R.arena)
           /\ ArenaGetPoints(R.arena, op.data[1], c.count) = c.pts
      [] c.method = "drawText" ->
           /\ op.type = Text /\ op.color = c.c
           /\ op.data[1] = c.p.x /\ op.data[2] = c.p.y
           /\ op.data[4] = Len(c.text)
           /\ op.data[3] + Len(c.text) + 1 <= Len(R.arena)
           /\ ArenaGetString(R.arena, op.data[3], Len(c.text)) = c.text \o <<0>>
      [] c.method = "drawImage" ->
           /\ op.type = DrawImage
           /\ op.data[1] = c.x /\ op.data[2] = c.y
           /\ GetImage(R, op.data[3]) = c.image
      [] c.method = "setClip" ->
           op.type = SetClip /\ DataRect(op.data) = c.r
      [] c.method = "clearClip" ->
           op.type = ClearClip

OpsAreCalls(R, log) ==
    /\ R.run = 0
    /\ Len(R.ops) = Len(log)
    /\ \A k \in DOMAIN log : Describes(R, R.ops[k], log[k])

\* C19: each Recorder method (fillRect, strokeRect, drawLine, drawPolyline,
\* drawText, drawImage, setClip, clearClip) appends exactly one op: the
\* Recorder holds one op per call made, and the ops of a finished Recording
\* are the calls in call order, each with the arguments it was passed.
C19_OneOpPerCallInCallOrder ==
    /\ OpsAreCalls(ops_, call.log)
    /\ recording_ # Null => OpsAreCalls(recording_, call.sealed)

\* A finished Recording of three calls, two of them different arena stores and
\* one a line.
C19_Witness ==
    /\ recording_ # Null
    /\ Len(call.sealed) = 3
    /\ \E i, j, k \in DOMAIN call.sealed :
         /\ call.sealed[i].method = "drawText"
         /\ call.sealed[j].method = "drawPolyline"
         /\ call.sealed[k].method = "drawLine"
         /\ i < j

\* Reading back the k-th store of the log from the arena.
ReadsBack(arena, st) ==
    IF st.kind = "string"
      THEN /\ st.offset + Len(st.payload) + 1 <= Len(arena)
           /\ ArenaGetString(arena, st.offset, Len(st.payload)) = st.payload \o <<0>>
      ELSE /\ st.offset + Len(st.payload) * SizeofPoint <= Len(arena)
           /\ ArenaGetPoints(arena, st.offset, Len(st.payload)) = st.payload

\* C20: for any sequence of store_string and store_points calls with no reset
\* between them, reading the arena at each returned offset yields exactly the
\* payload stored there (a string followed by one zero byte, points element by
\* element), so no later store has altered or moved an earlier payload.
C20_ArenaRoundTrip ==
    \A k \in DOMAIN call.stores : ReadsBack(ops_.arena, call.stores[k])

\* Three stores in one arena, a string of odd length before points, and an
\* empty string.
C20_Witness ==
    /\ Len(call.stores) = 3
    /\ call.stores[1].kind = "string" /\ Len(call.stores[1].payload) = 1
    /\ call.stores[2].kind = "points"
    /\ call.stores[3].payload = <<>>

(***************************************************************************)
(* Properties of the Canvas clip stack, checked under CanvasSpec.          *)
(***************************************************************************)
\* The integer points a rect covers.
Covers(r) == {<<x, y>> \in (r.x..(r.x + r.w - 1)) \X (r.y..(r.y + r.h - 1)) : TRUE}

\* The SetClip op for a rect, and the ClearClip op, up to identity.
IsSetClipOf(op, r) == op.type = SetClip /\ DataRect(op.data) = r
IsClearClip(op) == op.type = ClearClip

\* C13: after clip_rect(a) followed by clip_rect(b) on a Canvas with no prior
\* clip, the last op emitted is a SetClip whose rect is intersect(a, b): it
\* starts at the larger of the two origins, has no negative width or height,
\* and covers exactly the points that a and b both cover; for disjoint a and b
\* it covers nothing (a zero-size clip) and is emitted all the same.
C13_ClipRectTwiceEmitsIntersection ==
    \A k \in DOMAIN call :
      ( /\ k + 1 = Len(call)
        /\ call[k].method = "clipRect" /\ ~call[k].before.hasClip
        /\ call[k + 1].method = "clipRect" )
      => LET a == call[k].r
             b == call[k + 1].r
             op == ops_.ops[Len(ops_.ops)]
             c == DataRect(op.data)
         IN  /\ call[k + 1].emitted = <<op>>
             /\ op.type = SetClip
             /\ c.x = Max(a.x, b.x) /\ c.y = Max(a.y, b.y)
             /\ c.w >= 0 /\ c.h >= 0
             /\ Covers(c) = Covers(a) \cap Covers(b)

\* Two disjoint rects clipped one after the other, the second to the left of
\* where the first ends: the clip emitted covers nothing.
C13_Witness ==
    /\ Len(call) = 2
    /\ call[1].method = "clipRect" /\ call[2].method = "clipRect"
    /\ Covers(call[1].r) \cap Covers(call[2].r) = {}
    /\ ops_.ops[Len(ops_.ops)].type = SetClip
    /\ ops_.ops[Len(ops_.ops)].data[3] = 0

\* The save that the restore at position k pops: the last save before k with
\* as many saves as restores between the two.
MatchingSave(log, k) ==
    CHOOSE j \in 1..(k - 1) :
      /\ log[j].method = "save"
      /\ log[j].depth + 1 = log[k].depth
      /\ \A m \in (j + 1)..(k - 1) : log[m].depth > log[j].depth

\* C14: after restore the Canvas's current clip equals the clip that was
\* current at the matching save, at any nesting depth, and the op issued by
\* restore re-asserts it: a SetClip with that rect if a clip was set at the
\* save, a ClearClip if none was.
C14_RestoreReassertsSavedClip ==
    \A k \in DOMAIN call :
      (call[k].method = "restore" /\ call[k].depth > 0) =>
        LET saved == call[MatchingSave(call, k)].before
        IN  /\ call[k].after = saved
            /\ \A m \in DOMAIN call[k].emitted :
                 IF saved.hasClip
                   THEN IsSetClipOf(call[k].emitted[m], saved.clip)
                   ELSE IsClearClip(call[k].emitted[m])
            /\ (k = Len(call) => current_ = saved)

\* Two nested saves, each followed by a clipRect, then two restores: the
\* inner one re-asserts the outer clip with a SetClip, the outer one the
\* absence of a clip with a ClearClip.
C14_Witness ==
    /\ Len(call) = 6
    /\ call[1].method = "save" /\ call[2].method = "clipRect"
    /\ call[3].method = "save" /\ call[4].method = "clipRect"
    /\ call[5].method = "restore" /\ call[6].method = "restore"
    /\ call[4].after # call[2].after
    /\ Len(call[5].emitted) = 1 /\ call[5].emitted[1].type = SetClip
    /\ Len(call[6].emitted) = 1 /\ call[6].emitted[1].type = ClearClip

C16_RestoreOnEmptyStackIsNoOp ==
    \A k \in DOMAIN call :
      (call[k].method = "restore" /\ call[k].depth = 0) =>
        /\ call[k].emitted = <<>>
        /\ call[k].after = call[k].before
        /\ (k = Len(call) => stack_ = <<>>)
        /\ (k < Len(call) /\ call[k + 1].method = "fillRect") =>
             /\ Len(call[k + 1].emitted) = 1
             /\ call[k + 1].emitted[1].type = FillRect
             /\ DataRect(call[k + 1].emitted[1].data) = call[k + 1].r

\* A clip is set, restore is called with nothing saved, and a fill follows.
C16_Witness ==
    /\ Len(call) = 3
    /\ call[1].method = "clipRect"
    /\ call[2].method = "restore" /\ call[2].depth = 0
    /\ call[3].method = "fillRect"
    /\ current_ = call[1].after
    /\ OpAt(ops_, OpCount(ops_) - 1).type = FillRect

(***************************************************************************)
(* Properties of the raster Surface and the CpuBackend, under RasterSpec.  *)
(***************************************************************************)
\* C11: a snapshot returned by make_snapshot is isolated from its source
\* Surface: whatever begin_frame, draw, flush or resize happens on the source
\* afterwards, the snapshot has the size and every pixel it had when taken.
C11_SnapshotIsIsolated ==
    \A k \in DOMAIN snapshots :
      heap[snapshots[k].image.addr] = snapshots[k].taken

\* A snapshot was taken of a drawn frame, and the source has since been drawn
\* on and flushed again and shows other pixels.
C11_Witness ==
    /\ snapshots # <<>>
    /\ last = "flush"
    /\ executeCalls = 2
    /\ snapshots[1].taken.px # [k \in DOMAIN snapshots[1].taken.px |-> <<255, 0, 0, 0>>]
    /\ heap[pixmap_.addr].px # snapshots[1].taken.px

\* The DrawImage calls of recording R whose image covers target pixel
\* (col, row), as indices in call order, and the pixel the image of call j
\* has there, in the target's format.
DrawnOver(H, R, col, row) ==
    { j \in 0..(OpCount(R) - 1) :
        LET op == OpAt(R, j)
            img == H[GetImage(R, op.data[3]).addr]
        IN  /\ op.type = DrawImage
            /\ op.data[1] <= col /\ col < op.data[1] + img.w
            /\ op.data[2] <= row /\ row < op.data[2] + img.h }

ImagePixelAt(H, R, j, format, col, row) ==
    LET op == OpAt(R, j)
        image == GetImage(R, op.data[3])
        img == H[image.addr]
        sp == img.px[(row - op.data[2]) * img.w + (col - op.data[1]) + 1]
    IN  PackOpaque(format, PixelR(image.format, sp), PixelG(image.format, sp),
                   PixelB(image.format, sp))

\* The last execute, op by op: the indices in pass order, the op run at
\* position k, and the backend before and after it.
ExecutedOrder == IndexOrder(sortedIndices_)
ExecutedOp(k) == OpAt(passOf, ExecutedOrder[k])
BackendBefore(k) ==
    ExecuteRange(trace, heap, glyphCache_, passOf, ExecutedOrder, 1, k - 1)
BackendAfter(k) ==
    ExecuteRange(trace, heap, glyphCache_, passOf, ExecutedOrder, 1, k)

Flushed == last = "flush" /\ passOf # Null /\ trace # Null

\* The pixels of target B outside rect r, as indices into B.px.
Outside(B, r) ==
    { PixelIndex(B, x, y) : <<x, y>> \in
        { q \in (0..(B.w - 1)) \X (0..(B.h - 1)) :
            q[1] < r.x \/ q[1] >= r.x + r.w \/ q[2] < r.y \/ q[2] >= r.y + r.h } }

\* Draw ops of the types in T, run while a clip rect is active, leave every
\* target pixel outside the rect as it was.
ClipKeptBy(T) ==
    Flushed =>
      \A k \in DOMAIN ExecutedOrder :
        (ExecutedOp(k).type \in T /\ BackendBefore(k).hasClip) =>
          \A i \in Outside(BackendBefore(k), BackendBefore(k).clipRect) :
            BackendAfter(k).px[i] = BackendBefore(k).px[i]

\* C17: while a clip rect r is active in the CPU backend, no draw op of any
\* type (fill, stroke, line, polyline, text, image) modifies a target pixel
\* outside r.
C17_NoDrawOutsideActiveClip ==
    ClipKeptBy({FillRect, StrokeRect, Line, Polyline, Text, DrawImage})

\* The pixels of target B that rect r covers inside the clip in force.
CoveredInClip(B, r) ==
    { PixelIndex(B, x, y) : <<x, y>> \in
        { q \in (0..(B.w - 1)) \X (0..(B.h - 1)) :
            /\ r.x <= q[1] /\ q[1] < r.x + r.w
            /\ r.y <= q[2] /\ q[2] < r.y + r.h
            /\ ~IsClipped(B, q[1], q[2]) } }

\* The rect an op's image occupies on the target, and whether all its pixels
\* have the alpha a.
ImageRectOf(op) ==
    LET img == heap[GetImage(passOf, op.data[3]).addr]
    IN  [x |-> op.data[1], y |-> op.data[2], w |-> img.w, h |-> img.h]
ImageAlphaIs(op, a) ==
    LET img == heap[GetImage(passOf, op.data[3]).addr]
    IN  \A i \in DOMAIN img.px : img.px[i][1] = a

\* The op run at position k was drawn with source alpha 0: the destination is
\* unchanged.
AlphaZeroKeeps(k) ==
    LET op == ExecutedOp(k)
    IN  (\/ op.type \in {FillRect, StrokeRect, Line, Polyline} /\ op.color.a = 0
         \/ op.type = DrawImage /\ ImageAlphaIs(op, 0))
          => BackendAfter(k).px = BackendBefore(k).px

\* The op run at position k was drawn with source alpha 255: every pixel it
\* touched now holds the source colour in the target's channel order, alpha
\* 255; a fill or an image touched every pixel it covers inside the clip.
AlphaFullReplaces(k) ==
    LET op == ExecutedOp(k)
        before == BackendBefore(k)
        after == BackendAfter(k)
    IN  /\ (op.type \in {FillRect, StrokeRect, Line, Polyline} /\ op.color.a = 255) =>
              /\ \A i \in DOMAIN after.px :
                   \/ after.px[i] = before.px[i]
                   \/ after.px[i] = <<255>> \o SubSeq(PackColor(after.format, op.color), 2, 4)
              /\ op.type = FillRect =>
                   \A i \in CoveredInClip(before, DataRect(op.data)) :
                     after.px[i] = <<255>> \o SubSeq(PackColor(after.format, op.color), 2, 4)
        /\ (op.type = DrawImage /\ ImageAlphaIs(op, 255)) =>
              \A row \in 0..(before.h - 1) : \A col \in 0..(before.w - 1) :
                after.px[PixelIndex(before, col, row)] =
                  IF PixelIndex(before, col, row) \in CoveredInClip(before, ImageRectOf(op))
                    THEN ImagePixelAt(heap, passOf, ExecutedOrder[k], before.format, col, row)
                    ELSE before.px[PixelIndex(before, col, row)]

\* C18: CPU blending obeys the alpha identity at both extremes: drawing with
\* source alpha 0 leaves every destination pixel unchanged, and drawing with
\* source alpha 255 replaces the destination pixel with the source colour (up
\* to channel-order conversion).  Stated of every fill, stroke, line, polyline
\* and image op of the last execute.
C18_AlphaIdentity ==
    Flushed => \A k \in DOMAIN ExecutedOrder : AlphaZeroKeeps(k) /\ AlphaFullReplaces(k)

\* An opaque op changed pixels, and an alpha-0 fill then ran over them and
\* left them as they were.
C18_Witness ==
    /\ Flushed
    /\ \E k \in DOMAIN ExecutedOrder : \E j \in DOMAIN ExecutedOrder :
         /\ j < k
         /\ ExecutedOp(j).type \in {FillRect, StrokeRect, Line} /\ ExecutedOp(j).color.a = 255
         /\ BackendAfter(j).px # BackendBefore(j).px
         /\ ExecutedOp(k).type = FillRect /\ ExecutedOp(k).color.a = 0
         /\ BackendBefore(k).px # trace.px
         /\ BackendAfter(k).px = BackendBefore(k).px

(***************************************************************************)
(* Properties of stacked images, under LayerSpec.                          *)
(***************************************************************************)
\* Every pixel of the target shows the opaque image drawn last over it, and
\* what beginFrame left where no image was drawn.
LaterImageOnTop ==
    \A row \in 0..(trace.h - 1) : \A col \in 0..(trace.w - 1) :
      LET over == DrawnOver(heap, passOf, col, row)
          shown == heap[pixmap_.addr].px[row * trace.w + col + 1]
      IN  IF over = {}
            THEN shown = trace.px[row * trace.w + col + 1]
            ELSE LET top == CHOOSE j \in over : \A k \in over : k <= j
                 IN  shown = ImagePixelAt(heap, passOf, top, trace.format, col, row)

\* C12 (as claimed): images drawn with draw_image within one frame are
\* composited in call order, for any number of calls: wherever drawn images
\* overlap, the target shows the one drawn later.
C12_ImagesCompositeInCallOrder == Flushed => LaterImageOnTop

\* C12 (amended): the same for a frame of at most 256 ops; from the 257th op
\* of a clip group on the sequence byte has wrapped.
C12_ImagesCompositeInCallOrderUpTo256 ==
    (Flushed /\ OpCount(passOf) <= U8Mod) => LaterImageOnTop

\* 256 images were drawn in the frame, the last two over the loop's image, and
\* the flushed target shows the last one.
C12_Witness ==
    /\ Flushed
    /\ OpCount(passOf) = U8Mod
    /\ \E row \in 0..(trace.h - 1) : \E col \in 0..(trace.w - 1) :
         /\ {U8Mod - 3, U8Mod - 2, U8Mod - 1} \subseteq DrawnOver(heap, passOf, col, row)
         /\ ImagePixelAt(heap, passOf, U8Mod - 1, trace.format, col, row)
              # ImagePixelAt(heap, passOf, U8Mod - 2, trace.format, col, row)
         /\ ImagePixelAt(heap, passOf, U8Mod - 2, trace.format, col, row)
              # ImagePixelAt(heap, passOf, U8Mod - 3, trace.format, col, row)
    /\ LaterImageOnTop

(***************************************************************************)
(* Properties of single ops of the CpuBackend, under RasterSpec.           *)
(***************************************************************************)
\* The pixels of target B in the four edge bands of thickness w of rect r:
\* the fill rectangles (r.x, r.y, r.w, w), (r.x, r.y + r.h - w, r.w, w),
\* (r.x, r.y + w, w, r.h - 2w) and (r.x + r.w - w, r.y + w, w, r.h - 2w).
EdgeBands(B, r, w) ==
    CoveredInClip(B, [x |-> r.x, y |-> r.y, w |-> r.w, h |-> w])
      \cup CoveredInClip(B, [x |-> r.x, y |-> r.y + r.h - w, w |-> r.w, h |-> w])
      \cup CoveredInClip(B, [x |-> r.x, y |-> r.y + w, w |-> w, h |-> r.h - 2 * w])
      \cup CoveredInClip(B, [x |-> r.x + r.w - w, y |-> r.y + w, w |-> w, h |-> r.h - 2 * w])

\* C30: on the CPU backend StrokeRect(r, c, w) draws the four edge bands of
\* thickness w of r as fill rectangles: an opaque stroke sets exactly the
\* pixels of the bands (inside the clip) to c and leaves the others alone.
C30_StrokeRectFillsFourEdgeBands ==
    Flushed =>
      \A k \in DOMAIN ExecutedOrder :
        LET op == ExecutedOp(k)
            before == BackendBefore(k)
            after == BackendAfter(k)
        IN  (op.type = StrokeRect /\ op.color.a = 255) =>
              \A i \in DOMAIN after.px :
                after.px[i] =
                  IF i \in EdgeBands(before, DataRect(op.data), op.width)
                    THEN PackColor(after.format, op.color)
                    ELSE before.px[i]

(***************************************************************************)
(* The clip a draw op is recorded under and the clip it is executed under. *)
(***************************************************************************)
\* The clip state a SetClip / ClearClip op leaves (execSetClip, execClearClip).
ClipAfter(op) ==
    IF op.type = SetClip THEN [hasClip |-> TRUE, clip |-> DataRect(op.data)]
    ELSE DefaultState

\* The clip in effect where op i was recorded: that of the last clip change
\* recorded before it, none if there is no such op.
RecordedClip(R, i) ==
    LET cs == {m \in Explicit(R) : m < i /\ IsClipChange(OpAt(R, m))}
    IN  IF cs # {} THEN ClipAfter(OpAt(R, CHOOSE m \in cs : \A n \in cs : n <= m))
        ELSE IF IsClipChange(R.runOp) /\ Min(i, R.run) > 0 THEN ClipAfter(R.runOp)
        ELSE DefaultState

\* The clip in effect when op i is executed in the order s, starting without
\* a clip: that of the last clip change standing before it in s.  An index
\* run holds copies of one op, so the last clip change of a run is its end.
ExecutedClip(R, s, i) ==
    LET cs == {k \in DOMAIN s : k < SegOf(s, i) /\ IsClipChange(OpAt(R, s[k].hi))}
    IN  IF cs # {} THEN ClipAfter(OpAt(R, s[CHOOSE k \in cs : \A n \in cs : n <= k].hi))
        ELSE DefaultState

\* C23: for every Recording, executed in sorted_indices order each draw op
\* runs under the clip (the same rect, or no clip) that was in effect where it
\* was recorded.
C23_DrawsRunUnderRecordedClip ==
    passOf # Null =>
      \A i \in Sample(passOf, sortedIndices_) :
        ~IsClipChange(OpAt(passOf, i)) =>
          ExecutedClip(passOf, sortedIndices_, i) = RecordedClip(passOf, i)

(***************************************************************************)
(* Pass order against recording order on the CpuBackend, under RasterSpec. *)
(***************************************************************************)
\* Recording order: the indices 0 .. n-1 as Recording::accept walks them.
CallOrder(R) == [k \in 1..OpCount(R) |-> k - 1]

\* The target after the ops of the last executed Recording are run in
\* recording order (the order of Recording::accept) from where execute began.
PaintedAsRecorded ==
    ExecuteRange(trace, heap, glyphCache_, passOf, CallOrder(passOf), 1,
                 OpCount(passOf)).px

\* Every clip group of R draws with one type and one colour.
UniformGroups(R) ==
    \A i, j \in 0..(OpCount(R) - 1) :
      ( /\ ~IsClipChange(OpAt(R, i))
        /\ ~IsClipChange(OpAt(R, j))
        /\ SameGroup(R, i, j) )
      => (OpAt(R, i).type = OpAt(R, j).type /\ OpAt(R, i).color = OpAt(R, j).color)

\* C24 (as claimed): for every Recording, executing its ops on the CPU backend
\* in DrawPass order gives the same final target pixels as executing them in
\* recording order, also when ops of different types or colours overlap.
C24_PassOrderPaintsAsRecorded ==
    Flushed => heap[pixmap_.addr].px = PaintedAsRecorded

\* C24 (amended): the same for Recordings of at most 256 ops whose clip groups
\* each draw with one type and one colour; overlapping ops of different types
\* or colours of one group are painted in type-then-colour order instead.
C24_PassOrderPaintsAsRecordedInUniformGroups ==
    (Flushed /\ OpCount(passOf) <= U8Mod /\ UniformGroups(passOf))
      => heap[pixmap_.addr].px = PaintedAsRecorded

\* A SetClip and then a fill reaching outside the clip were recorded and
\* flushed: the fill was painted, clipped.
C24_Witness ==
    /\ Flushed
    /\ OpCount(passOf) = 2
    /\ OpAt(passOf, 0).type = SetClip
    /\ OpAt(passOf, 1).type = FillRect /\ OpAt(passOf, 1).color.a = 255
    /\ heap[pixmap_.addr].px # trace.px
    /\ heap[pixmap_.addr].px # ExecOp(trace, heap, glyphCache_, passOf, OpAt(passOf, 1)).px
    /\ heap[pixmap_.addr].px = PaintedAsRecorded

(***************************************************************************)
(* BoundsSpec properties.                                                  *)
(***************************************************************************)
\* The target's columns and rows reach outside rect r.
LeavesTarget(B, r) == r.x < 0 \/ r.y < 0 \/ r.x + r.w > B.w \/ r.y + r.h > B.h

\* C29: whatever the op coordinates (negative, or beyond the target) and the
\* clip rect (also one that reaches outside the target), every store of the
\* CPU backend goes to a target pixel (x, y) with 0 <= x < width and
\* 0 <= y < height.
C29_StoresStayInsideTarget ==
    Flushed => \A k \in DOMAIN ExecutedOrder : ~BackendAfter(k).stray

\* A StrokeRect that leaves the target ran under a clip rect that leaves it
\* too, and painted.
C29_Witness ==
    /\ Flushed
    /\ \E k \in DOMAIN ExecutedOrder :
         /\ ExecutedOp(k).type = StrokeRect
         /\ ExecutedOp(k).color.a = 255
         /\ LeavesTarget(BackendBefore(k), DataRect(ExecutedOp(k).data))
         /\ BackendBefore(k).hasClip
         /\ LeavesTarget(BackendBefore(k), BackendBefore(k).clipRect)
         /\ BackendAfter(k).px # BackendBefore(k).px

(***************************************************************************)
(* FrameClipSpec properties.                                               *)
(***************************************************************************)
\* The clip the backend applies to a draw op recorded next: the clip it is
\* left with by the ops recorded in this frame so far, run from the state
\* beginFrame put it in.
NextOpClip ==
    LET B == ExecuteRange(Backend, heap, glyphCache_, ops_, CallOrder(ops_),
                          1, OpCount(ops_))
    IN  [hasClip |-> B.hasClip, clip |-> B.clipRect]

\* C25: across the frames of one Surface, while a frame is recorded the clip
\* state the Canvas holds equals the clip the backend will apply to the next
\* recorded draw op, also after a begin_frame that follows a frame whose
\* clip_rect was never undone by restore.
C25_CanvasClipIsBackendClip ==
    InFrame => current_ = NextOpClip

(***************************************************************************)
(* GpuSpec properties.                                                     *)
(***************************************************************************)
\* MakeGpu has returned; what it returned is a Surface (not nullptr) if it
\* has a backend.
MadeGpu == last # "init" /\ call.method = "makeGpu"

C22_ImageIdsUniqueIncreasingStable ==
    /\ [](/\ (created # <<>> => created[1].id = 1)
          /\ \A j, k \in DOMAIN created : j < k => created[j].id < created[k].id)
    /\ [][\A k \in DOMAIN created :
            k \in DOMAIN created' /\ created'[k].id = created[k].id]_vars

\* Two Images exist, one on CPU pixels and one on a GPU texture, and have
\* been through a frame.
C22_Witness ==
    /\ Len(created) >= 2
    /\ \E j, k \in DOMAIN created : IsCpuBacked(created[j]) /\ IsGpuBacked(created[k])
    /\ last = "flush"

\* The last GLBackend::execute, op by op: the GL side before and after the
\* op at position k of the pass, and the draw calls the execute issued.
GlFlushed == last = "flush" /\ passOf # Null /\ impl_ # Null /\ trace # Null
GlAfter(k) ==
    GlExecuteFrom(trace.side, passOf, SubSeq(ExecutedOrder, 1, k), 1, 0 - 1,
                  TRUE, trace.fails)
GlBefore(k) == GlAfter(k - 1)
DrawnNow == SubSeq(gl.drawn, Len(trace.side.gl.drawn) + 1, Len(gl.drawn))
PositionOf(idx) == CHOOSE k \in DOMAIN ExecutedOrder : ExecutedOrder[k] = idx

\* The scissor state in effect at position k of the pass: what the SetClip
\* and ClearClip ops standing before it leave, from the state the execute
\* found.
RECURSIVE ScissorBefore(_)
ScissorBefore(k) ==
    IF k <= 1 THEN trace.side.gl.scissor
    ELSE LET op == ExecutedOp(k - 1)
             prev == ScissorBefore(k - 1)
         IN  IF op.type = SetClip
               THEN ScissorOf(DataRect(op.data), trace.side.impl.height)
             ELSE IF op.type = ClearClip THEN [prev EXCEPT !.enabled = FALSE]
             ELSE prev

\* The ops from position k on are drawn under the scissor state of their
\* position (each vertex of each draw call), colour ops are drawn, and no
\* vertex is left in a batch.
DrawnUnderOwnScissorFrom(k) ==
    /\ \A d \in DOMAIN DrawnNow : \A v \in DOMAIN DrawnNow[d].verts :
         PositionOf(DrawnNow[d].verts[v].op) >= k =>
           DrawnNow[d].scissor = ScissorBefore(PositionOf(DrawnNow[d].verts[v].op))
    /\ \A j \in DOMAIN ExecutedOrder :
         (j >= k /\ ExecutedOp(j).type \in {FillRect, Line}) =>
           \E d \in DOMAIN DrawnNow : \E v \in DOMAIN DrawnNow[d].verts :
             DrawnNow[d].verts[v].op = ExecutedOrder[j]
    /\ impl_.colorVerts = <<>>
    /\ impl_.texVerts = <<>>

LookupsOf(i) == {k \in DOMAIN gl.lookups : gl.lookups[k].id = i}
UploadsOf(i) == {k \in DOMAIN gl.uploads : gl.uploads[k].id = i}
LookedUp == {gl.lookups[k].id : k \in DOMAIN gl.lookups}

\* No texture of the cache is deleted while the context lives.
CacheKept ==
    gpuContext_ # Null =>
      \A i \in DOMAIN gpuContext_.cpuImageCache_ :
        gpuContext_.cpuImageCache_[i] \notin gl.deleted

\* C27 as claimed: within one context lifetime every lookup of a valid
\* CPU-backed Image returns the same non-zero handle, exactly one texture
\* is allocated and uploaded for its id, and no cached texture is deleted
\* before the context is destroyed.
C27_OneTexturePerImage ==
    /\ \A i \in LookedUp :
         /\ Cardinality(UploadsOf(i)) = 1
         /\ \A k \in LookupsOf(i) :
              /\ gl.lookups[k].texture # 0
              /\ gl.lookups[k].texture = gl.uploads[CHOOSE u \in UploadsOf(i) : TRUE].texture
    /\ CacheKept

\* C27 amended: at most one texture is allocated and uploaded for an id; a
\* lookup returns 0 only when the allocation failed and nothing is cached
\* for the id yet; every other lookup returns the one handle uploaded for
\* the id; no cached texture is deleted before the context is destroyed.
C27_OneTexturePerImageOnceAllocated ==
    /\ \A i \in LookedUp :
         /\ Cardinality(UploadsOf(i)) <= 1
         /\ \A k \in LookupsOf(i) :
              IF gl.lookups[k].texture = 0
                THEN \A j \in LookupsOf(i) : j < k => gl.lookups[j].texture = 0
                ELSE /\ UploadsOf(i) # {}
                     /\ gl.lookups[k].texture =
                          gl.uploads[CHOOSE u \in UploadsOf(i) : TRUE].texture
    /\ \A k \in DOMAIN gl.uploads : gl.uploads[k].texture # 0
    /\ CacheKept

\* One CPU-backed Image was looked up in two frames and got the same handle.
C27_Witness ==
    /\ executeCalls >= 2
    /\ \E i \in LookedUp :
         /\ Cardinality(LookupsOf(i)) >= 2
         /\ \A k \in LookupsOf(i) : gl.lookups[k].texture # 0
         /\ Cardinality(UploadsOf(i)) = 1

\* At position k of the pass a DrawImage of a CPU-backed Image that is not
\* in the cache met a failing glGenTextures.
FailedAt(k) ==
    /\ k \in trace.fails
    /\ ExecutedOp(k).type = DrawImage
    /\ LET image == GetImage(passOf, ExecutedOp(k).data[3])
       IN  /\ GlImageValid(image)
           /\ IsCpuBacked(image)
           /\ image.id \notin DOMAIN GlBefore(k).cache

\* C28: when the texture allocation for a CPU-backed image fails in a GPU
\* DrawImage op, the op is skipped: no textured quad is pushed or drawn (the
\* only draw call is the flush of the colour vertices of earlier ops),
\* nothing is entered in the cache, the scissor state stays, no vertex is
\* left in a batch; the ops after it are drawn under the scissor state of
\* their position.
C28_FailedImageIsSkipped ==
    GlFlushed =>
      \A k \in DOMAIN ExecutedOrder :
        FailedAt(k) =>
          /\ GlAfter(k).cache = GlBefore(k).cache
          /\ GlAfter(k).gl.textures = GlBefore(k).gl.textures
          /\ GlAfter(k).gl.uploads = GlBefore(k).gl.uploads
          /\ GlAfter(k).gl.scissor = GlBefore(k).gl.scissor
          /\ GlAfter(k).impl.texVerts = <<>>
          /\ GlAfter(k).impl.colorVerts = <<>>
          /\ GlAfter(k).gl.drawn = FlushColorBatch(GlBefore(k)).gl.drawn
          /\ \A d \in DOMAIN DrawnNow : \A v \in DOMAIN DrawnNow[d].verts :
               DrawnNow[d].verts[v].op # ExecutedOrder[k]
          /\ DrawnUnderOwnScissorFrom(k + 1)

\* A DrawImage failed to get its texture after a fill had pushed its
\* vertices, or before a SetClip that then took effect.
C28_Witness ==
    /\ GlFlushed
    /\ \E k \in DOMAIN ExecutedOrder :
         /\ FailedAt(k)
         /\ \/ /\ k + 1 \in DOMAIN ExecutedOrder
               /\ ExecutedOp(k + 1).type = SetClip
               /\ gl.scissor.enabled
            \/ /\ k - 1 \in DOMAIN ExecutedOrder
               /\ ExecutedOp(k - 1).type = FillRect
               /\ DrawnNow # <<>>

====
